---- MODULE Spec2Model ----
(***************************************************************************)
(* Model of the CV optimization engine (src/ats_app/cv_optimizer.py).      *)
(*                                                                         *)
(* A Python str is modelled as a sequence of one-character strings, so     *)
(* that split, strip, lower, replace, find, rfind, len and the "in" test   *)
(* are computed character by character as the interpreter computes them.   *)
(* The character U+2022 (bullet) is written "U+2022".  Python indices are  *)
(* kept 0-based where the code stores them (find / rfind / slicing).       *)
(***************************************************************************)
EXTENDS Integers, Sequences, FiniteSets, TLC

VARIABLES
    cv_text,              \* optimize_cv argument cv_text
    provider,             \* self.llm_config['provider']
    pc,                   \* stage of the optimization request
    trace,                \* stages entered so far, in order
    llm_calls,            \* number of requests.post calls issued by the request
    llm_event,            \* what the endpoint did with the call
    optimization_result,  \* value returned by _generate_optimizations
    validation_result,    \* value returned by _validate_improvements
    result,               \* dict returned by optimize_cv
    v_original,           \* _validate_improvements argument original
    v_optimized,          \* _validate_improvements argument optimized
    v_result,             \* _validate_improvements return value
    scanner,              \* instance state of the EnhancedATSScanner
    pending,              \* scans the caller is still to request, in order
    scans,                \* scans completed so far: input and returned dict
    requests,             \* frames of the optimize_cv calls in progress
    config_path,          \* load_config argument path
    config_file,          \* what the file system holds at that path
    config_result,        \* outcome of load_config
    analysis_results,     \* generate_comprehensive_report argument
    report,               \* dict returned by generate_comprehensive_report
    s_cv_text,            \* get_optimization_suggestions argument cv_text
    suggestions,          \* list returned by get_optimization_suggestions
    f_cv_text,            \* text first given to _fallback_optimization
    f_runs                \* dicts returned by _fallback_optimization, each
                          \* run given the optimized_content of the last

vars == <<cv_text, provider, pc, trace, llm_calls, llm_event,
          optimization_result, validation_result, result,
          v_original, v_optimized, v_result,
          scanner, pending, scans, requests,
          config_path, config_file, config_result,
          analysis_results, report, s_cv_text, suggestions,
          f_cv_text, f_runs>>

request_vars == <<cv_text, provider, pc, trace, llm_calls, llm_event,
                  optimization_result, validation_result, result>>

validate_vars == <<v_original, v_optimized, v_result>>

scan_vars == <<scanner, pending, scans>>

config_vars == <<config_path, config_file, config_result>>

report_vars == <<analysis_results, report>>

suggest_vars == <<s_cv_text, suggestions>>

fallback_vars == <<f_cv_text, f_runs>>

\* the calls of the report generator and of the optimizer's helpers
call_vars == <<report_vars, suggest_vars, fallback_vars>>

(***************************************************************************)
(* Bounds of the model.                                                    *)
(***************************************************************************)
MaxLines == 2       \* lines of a CV text submitted to optimize_cv
MaxValLines == 2    \* lines of each text given to _validate_improvements

(***************************************************************************)
(* Python str primitives.                                                  *)
(***************************************************************************)
NL == "\n"

Whitespace == {" ", "\n", "\t"}

UpperCase == <<"A","B","C","D","E","F","G","H","I","J","K","L","M",
               "N","O","P","Q","R","S","T","U","V","W","X","Y","Z">>

LowerCase == <<"a","b","c","d","e","f","g","h","i","j","k","l","m",
               "n","o","p","q","r","s","t","u","v","w","x","y","z">>

UpperSet == {UpperCase[i] : i \in 1..26}

\* str.lower() of one character
LowerChar(c) ==
    IF c \in UpperSet
    THEN LowerCase[CHOOSE i \in 1..26 : UpperCase[i] = c]
    ELSE c

\* str.lower()
lower(s) == [i \in 1..Len(s) |-> LowerChar(s[i])]

\* s[i:i+len(p)] == p, i a 1-based position
MatchAt(s, p, i) ==
    /\ i + Len(p) - 1 <= Len(s)
    /\ \A j \in 1..Len(p) : s[i + j - 1] = p[j]

\* p in s
Contains(s, p) == \E i \in 1..(Len(s) - Len(p) + 1) : MatchAt(s, p, i)

SetMin(S) == CHOOSE x \in S : \A y \in S : x <= y

SetMax(S) == CHOOSE x \in S : \A y \in S : x >= y

\* 1-based positions >= i at which p occurs in s
Occurrences(s, p, i) == {k \in i..(Len(s) - Len(p) + 1) : MatchAt(s, p, k)}

\* 0-based index of the first occurrence of p in s at 1-based position >= i, or -1
FindFrom(s, p, i) ==
    LET hits == Occurrences(s, p, i)
    IN  IF hits = {} THEN -1 ELSE SetMin(hits) - 1

\* s.find(p)
find(s, p) == FindFrom(s, p, 1)

\* s.rfind(p)
rfind(s, p) ==
    LET hits == Occurrences(s, p, 1)
    IN  IF hits = {} THEN -1 ELSE SetMax(hits) - 1

\* s[a:b] for 0 <= a, 0 <= b
Slice(s, a, b) ==
    LET hi == IF b > Len(s) THEN Len(s) ELSE b
    IN  IF a >= hi THEN <<>> ELSE SubSeq(s, a + 1, hi)

RECURSIVE ReplaceFrom(_, _, _, _)
ReplaceFrom(s, old, new, i) ==
    LET k == FindFrom(s, old, i)
    IN  IF k = -1 THEN SubSeq(s, i, Len(s))
        ELSE SubSeq(s, i, k) \o new \o ReplaceFrom(s, old, new, k + 1 + Len(old))

\* s.replace(old, new), old non-empty: leftmost non-overlapping occurrences
replace(s, old, new) == ReplaceFrom(s, old, new, 1)

RECURSIVE SplitFrom(_, _, _)
SplitFrom(s, sep, i) ==
    LET k == FindFrom(s, <<sep>>, i)
    IN  IF k = -1 THEN <<SubSeq(s, i, Len(s))>>
        ELSE <<SubSeq(s, i, k)>> \o SplitFrom(s, sep, k + 2)

\* s.split(sep), sep one character: always at least one piece
split(s, sep) == SplitFrom(s, sep, 1)

RECURSIVE join(_, _)
\* sep.join(pieces)
join(sep, pieces) ==
    IF Len(pieces) = 0 THEN <<>>
    ELSE IF Len(pieces) = 1 THEN pieces[1]
    ELSE pieces[1] \o <<sep>> \o join(sep, Tail(pieces))

RECURSIVE LStripIndex(_, _)
LStripIndex(s, i) ==
    IF i > Len(s) \/ s[i] \notin Whitespace THEN i ELSE LStripIndex(s, i + 1)

RECURSIVE RStripIndex(_, _)
RStripIndex(s, i) ==
    IF i < 1 \/ s[i] \notin Whitespace THEN i ELSE RStripIndex(s, i - 1)

\* s.strip()
strip(s) == SubSeq(s, LStripIndex(s, 1), RStripIndex(s, Len(s)))

\* len(s.split()): number of maximal runs of non-whitespace characters
WordCount(s) ==
    Cardinality({i \in 1..Len(s) :
        s[i] \notin Whitespace /\ (i = 1 \/ s[i - 1] \in Whitespace)})

Max(a, b) == IF a >= b THEN a ELSE b

RECURSIVE GCD(_, _)
GCD(a, b) == IF b = 0 THEN a ELSE GCD(b, a % b)

(***************************************************************************)
(* A Python float that is a ratio of small integers is kept as the reduced *)
(* fraction num/den, den > 0.  For the magnitudes that occur (counts of    *)
(* bullets) IEEE-754 division and multiplication by 100 round equal ratios *)
(* to equal doubles and order unequal ratios as the exact values are       *)
(* ordered, so ==, < and the sign of a difference agree with the exact     *)
(* arithmetic.                                                             *)
(***************************************************************************)
Abs(n) == IF n < 0 THEN -n ELSE n

Ratio(n, d) ==
    LET g == GCD(Abs(n), d)
    IN  [num |-> n \div g, den |-> d \div g]

RatioSub(a, b) == Ratio(a.num * b.den - b.num * a.den, a.den * b.den)

(***************************************************************************)
(* CVOptimizer._analyze_current_cv                                         *)
(***************************************************************************)
BulletGlyphs == {"U+2022", "-", "*"}

QuantChars == {"%", "$", "0", "1", "2", "3", "4", "5", "6", "7", "8", "9"}

power_verbs == << <<"a","r","c","h","i","t","e","c","t","e","d">>,
                  <<"o","r","c","h","e","s","t","r","a","t","e","d">>,
                  <<"s","p","e","a","r","h","e","a","d","e","d">>,
                  <<"o","p","t","i","m","i","z","e","d">>,
                  <<"t","r","a","n","s","f","o","r","m","e","d">> >>

\* line.strip().startswith(('U+2022', '-', '*'))
IsBullet(line) ==
    LET t == strip(line)
    IN  Len(t) > 0 /\ t[1] \in BulletGlyphs

\* any(char in bullet for char in ['%', '$', '0', ..., '9'])
IsQuantified(bullet) == \E i \in 1..Len(bullet) : bullet[i] \in QuantChars

\* section_patterns, in the order of the dict: the name of the section and
\* the source text of its pattern
section_patterns ==
    << <<"summary", <<"(","s","u","m","m","a","r","y","|","p","r","o","f","i","l","e","|","o","b","j","e","c","t","i","v","e",")">> >>,
       <<"experience", <<"(","e","x","p","e","r","i","e","n","c","e","|","w","o","r","k","|","e","m","p","l","o","y","m","e","n","t","|","c","a","r","e","e","r",")">> >>,
       <<"education", <<"e","d","u","c","a","t","i","o","n">> >>,
       <<"skills", <<"s","k","i","l","l","s">> >>,
       <<"certifications", <<"(","c","e","r","t","i","f","i","c","a","t","i","o","n","s","|","c","e","r","t","i","f","i","c","a","t","e","s",")">> >>,
       <<"projects", <<"p","r","o","j","e","c","t","s">> >> >>

\* 'pattern in line' is the substring test of str: the source text of the
\* pattern is looked for in the line, brackets and bars included
_detect_sections(cv_text_) ==
    LET cv_lower == lower(cv_text_)
        lines == split(cv_lower, NL)
        found == SelectSeq(section_patterns,
                           LAMBDA entry :
                               \E k \in DOMAIN lines :
                                   Contains(lines[k], entry[2]))
    IN  [k \in DOMAIN found |-> found[k][1]]

_analyze_current_cv(text) ==
    LET lines == split(text, NL)
        bullets == SelectSeq(lines, IsBullet)
        quantified_bullets == Len(SelectSeq(bullets, IsQuantified))
        text_lower == lower(text)
        power_verb_count ==
            Cardinality({i \in 1..Len(power_verbs) :
                            Contains(text_lower, lower(power_verbs[i]))})
    IN  [total_bullets       |-> Len(bullets),
         quantified_bullets  |-> quantified_bullets,
         quantification_rate |-> Ratio(quantified_bullets * 100,
                                       Max(Len(bullets), 1)),
         power_verb_count    |-> power_verb_count,
         word_count          |-> WordCount(text),
         sections_detected   |-> _detect_sections(text)]

(***************************************************************************)
(* CVOptimizer._validate_improvements                                      *)
(***************************************************************************)
MinLengthChange == -50
MaxLengthChange == 200
PassThreshold == 50

\* the score of lines 394-402 with the bullet bonus given only for a gain
improvement_score_bullet_gain(improvements) ==
    LET s1 == IF improvements.quantification_improvement.num > 0
              THEN 30 ELSE 0
        s2 == IF improvements.power_verb_improvement > 0
              THEN s1 + 25 ELSE s1
        s3 == IF /\ MinLengthChange <= improvements.length_change
                 /\ improvements.length_change <= MaxLengthChange
              THEN s2 + 20 ELSE s2
    IN  IF improvements.bullet_count_change > 0 THEN s3 + 25 ELSE s3

\* the score of lines 394-402 with the length interval taken as open
improvement_score_open_interval(improvements) ==
    LET s1 == IF improvements.quantification_improvement.num > 0
              THEN 30 ELSE 0
        s2 == IF improvements.power_verb_improvement > 0
              THEN s1 + 25 ELSE s1
        s3 == IF /\ MinLengthChange < improvements.length_change
                 /\ improvements.length_change < MaxLengthChange
              THEN s2 + 20 ELSE s2
    IN  IF improvements.bullet_count_change >= 0 THEN s3 + 25 ELSE s3

\* improvement_score = 0 followed by the four conditional additions
improvement_score(improvements) ==
    LET s1 == IF improvements.quantification_improvement.num > 0
              THEN 30 ELSE 0
        s2 == IF improvements.power_verb_improvement > 0
              THEN s1 + 25 ELSE s1
        s3 == IF /\ MinLengthChange <= improvements.length_change
                 /\ improvements.length_change <= MaxLengthChange
              THEN s2 + 20 ELSE s2
    IN  IF improvements.bullet_count_change >= 0 THEN s3 + 25 ELSE s3

\* the length bonus and the bullet bonus together pass the validation
_validate_improvements_both_bonuses(original, optimized) ==
    LET original_analysis == _analyze_current_cv(original)
        optimized_analysis == _analyze_current_cv(optimized)
        improvements ==
            [quantification_improvement |->
                 RatioSub(optimized_analysis.quantification_rate,
                          original_analysis.quantification_rate),
             power_verb_improvement |->
                 optimized_analysis.power_verb_count
                     - original_analysis.power_verb_count,
             length_change |-> WordCount(optimized) - WordCount(original),
             bullet_count_change |->
                 optimized_analysis.total_bullets
                     - original_analysis.total_bullets]
        score == improvement_score(improvements)
    IN  [improvements       |-> improvements,
         improvement_score  |-> score,
         validation_passed  |-> score >= PassThreshold - 5,
         original_analysis  |-> original_analysis,
         optimized_analysis |-> optimized_analysis]

_validate_improvements(original, optimized) ==
    LET original_analysis == _analyze_current_cv(original)
        optimized_analysis == _analyze_current_cv(optimized)
        improvements ==
            [quantification_improvement |->
                 RatioSub(optimized_analysis.quantification_rate,
                          original_analysis.quantification_rate),
             power_verb_improvement |->
                 optimized_analysis.power_verb_count
                     - original_analysis.power_verb_count,
             length_change |-> WordCount(optimized) - WordCount(original),
             bullet_count_change |->
                 optimized_analysis.total_bullets
                     - original_analysis.total_bullets]
        score == improvement_score(improvements)
    IN  [improvements       |-> improvements,
         improvement_score  |-> score,
         validation_passed  |-> score >= PassThreshold,
         original_analysis  |-> original_analysis,
         optimized_analysis |-> optimized_analysis]

(***************************************************************************)
(* Inputs of _validate_improvements: the empty text, and texts made of an  *)
(* optional long paragraph line followed by 1..MaxValLines short lines.    *)
(***************************************************************************)
\* a line of n one-letter words
WordsLine(n) == [i \in 1..(2 * n - 1) |-> IF i % 2 = 1 THEN "a" ELSE " "]

ValShortLines ==
    { <<"-"," ","a">>,                           \* bullet without a figure
      <<"*"," ","5">>,                           \* bullet with a figure
      <<"A","r","c","h","i","t","e","c","t","e","d">> }                  \* a power verb, capitalised

ValPrefixes ==
    { <<>>,
      WordsLine(-MinLengthChange) \o <<NL>>,     \* 50 words
      WordsLine(MaxLengthChange) \o <<NL>> }     \* 200 words

TextsOf(pool, n) ==
    UNION { { join(NL, ls) : ls \in [1..k -> pool] } : k \in 1..n }

ValTexts ==
    {<<>>} \cup
    { p \o t : p \in ValPrefixes, t \in TextsOf(ValShortLines, MaxValLines) }

NoResult == [pending |-> TRUE]

\* no CVOptimizer request is being served
NoRequest ==
    /\ cv_text = <<>>
    /\ provider = "ollama"
    /\ pc = "IDLE"
    /\ trace = <<>>
    /\ llm_calls = 0
    /\ llm_event = NoResult
    /\ optimization_result = NoResult
    /\ validation_result = NoResult
    /\ result = NoResult
    /\ requests = <<>>

\* no call of _validate_improvements on its own
NoValidation ==
    /\ v_original = <<>>
    /\ v_optimized = <<>>
    /\ v_result = NoResult

\* no scanner has been constructed
NoScanner ==
    /\ scanner = NoResult
    /\ pending = <<>>
    /\ scans = <<>>

\* load_config has not been called
NoConfig ==
    /\ config_path = NoResult
    /\ config_file = NoResult
    /\ config_result = NoResult

\* no report has been asked for
NoReport ==
    /\ analysis_results = NoResult
    /\ report = NoResult

\* get_optimization_suggestions has not been called
NoSuggestions ==
    /\ s_cv_text = NoResult
    /\ suggestions = NoResult

\* _fallback_optimization has not been called on its own
NoFallback ==
    /\ f_cv_text = NoResult
    /\ f_runs = <<>>

NoCalls ==
    /\ NoReport
    /\ NoSuggestions
    /\ NoFallback

InitValidate ==
    /\ v_original \in ValTexts
    /\ v_optimized \in ValTexts
    /\ v_result = NoResult
    /\ NoRequest
    /\ NoScanner
    /\ NoConfig
    /\ NoCalls

\* one call _validate_improvements(original, optimized)
ApplyValidate ==
    /\ v_result = NoResult
    /\ v_result' = _validate_improvements(v_original, v_optimized)
    /\ UNCHANGED <<v_original, v_optimized>>
    /\ UNCHANGED request_vars
    /\ UNCHANGED <<scan_vars, requests, config_vars, call_vars>>

SpecValidate == InitValidate /\ [][ApplyValidate]_vars

(***************************************************************************)
(* Python values that are not known to be text carry their type: the       *)
(* value of the "response" field of the endpoint's JSON body and the       *)
(* members of the object embedded in the LLM's answer.                     *)
(*   str: val is the text;   number: val is the literal;                   *)
(*   list: val is the sequence of members;                                 *)
(*   dict: val is the sequence of <<key, value>> pairs in source order;    *)
(*   bool: val is the literal;   null: val is empty.                       *)
(***************************************************************************)
PyStr(s) == [type |-> "str", val |-> s]

PyList(l) == [type |-> "list", val |-> l]

PyNone == [type |-> "null", val |-> <<>>]

PyValue(t, v) == [type |-> t, val |-> v]

(***************************************************************************)
(* json.loads, as used at cv_optimizer.py:307, on the subset of JSON with  *)
(* objects, arrays, strings, non-negative integers, true, false and null.  *)
(* The modelled alphabet has no escape \b or \uXXXX and no fraction,       *)
(* exponent, sign, NaN or Infinity literal.                                *)
(***************************************************************************)
Digits == {"0", "1", "2", "3", "4", "5", "6", "7", "8", "9"}

JsonWhitespace == {" ", "\t", "\n", "\r"}

ControlChars == {"\t", "\n", "\r", "\f"}

ParseFail == [ok |-> FALSE, val |-> PyNone, next |-> 0]

ParseOk(v, n) == [ok |-> TRUE, val |-> v, next |-> n]

RECURSIVE SkipWS(_, _)
SkipWS(s, i) ==
    IF i <= Len(s) /\ s[i] \in JsonWhitespace THEN SkipWS(s, i + 1) ELSE i

\* the character an escape sequence \c stands for, <<>> if invalid
Unescape(c) ==
    CASE c = "n"  -> <<"\n">>
      [] c = "t"  -> <<"\t">>
      [] c = "r"  -> <<"\r">>
      [] c = "f"  -> <<"\f">>
      [] c = "\"" -> <<"\"">>
      [] c = "\\" -> <<"\\">>
      [] c = "/"  -> <<"/">>
      [] OTHER    -> <<>>

RECURSIVE ParseString(_, _, _)
\* s[i] is the first character after the opening quote
ParseString(s, i, acc) ==
    IF i > Len(s) THEN ParseFail
    ELSE IF s[i] = "\"" THEN ParseOk(PyStr(acc), i + 1)
    ELSE IF s[i] = "\\"
         THEN IF i + 1 > Len(s) \/ Unescape(s[i + 1]) = <<>>
              THEN ParseFail
              ELSE ParseString(s, i + 2, acc \o Unescape(s[i + 1]))
    ELSE IF s[i] \in ControlChars THEN ParseFail
    ELSE ParseString(s, i + 1, Append(acc, s[i]))

RECURSIVE ParseDigits(_, _)
\* position after the run of digits starting at i
ParseDigits(s, i) ==
    IF i <= Len(s) /\ s[i] \in Digits THEN ParseDigits(s, i + 1) ELSE i

\* -?(0|[1-9]\d*) without sign: a leading 0 ends the number
ParseNumber(s, i) ==
    LET n == IF s[i] = "0" THEN i + 1 ELSE ParseDigits(s, i)
    IN  ParseOk(PyValue("number", SubSeq(s, i, n - 1)), n)

RECURSIVE ParseValue(_, _)
RECURSIVE ParseMembers(_, _, _)
RECURSIVE ParseElements(_, _, _)

\* s[i] is where a key must start; acc holds the pairs read so far
ParseMembers(s, i, acc) ==
    LET j == SkipWS(s, i)
    IN  IF j > Len(s) \/ s[j] # "\"" THEN ParseFail
        ELSE LET key == ParseString(s, j + 1, <<>>)
                 c == SkipWS(s, key.next)
             IN  IF ~key.ok \/ c > Len(s) \/ s[c] # ":" THEN ParseFail
                 ELSE LET v == ParseValue(s, c + 1)
                          e == SkipWS(s, v.next)
                          pairs == Append(acc, <<key.val.val, v.val>>)
                      IN  IF ~v.ok \/ e > Len(s) THEN ParseFail
                          ELSE IF s[e] = "}"
                               THEN ParseOk(PyValue("dict", pairs), e + 1)
                          ELSE IF s[e] = ","
                               THEN ParseMembers(s, e + 1, pairs)
                          ELSE ParseFail

\* s[i] is where an element must start; acc holds the elements read so far
ParseElements(s, i, acc) ==
    LET v == ParseValue(s, i)
        e == SkipWS(s, v.next)
        elems == Append(acc, v.val)
    IN  IF ~v.ok \/ e > Len(s) THEN ParseFail
        ELSE IF s[e] = "]" THEN ParseOk(PyList(elems), e + 1)
        ELSE IF s[e] = "," THEN ParseElements(s, e + 1, elems)
        ELSE ParseFail

ParseValue(s, i) ==
    LET j == SkipWS(s, i)
    IN  IF j > Len(s) THEN ParseFail
        ELSE IF s[j] = "\"" THEN ParseString(s, j + 1, <<>>)
        ELSE IF s[j] = "{"
             THEN LET k == SkipWS(s, j + 1)
                  IN  IF k <= Len(s) /\ s[k] = "}"
                      THEN ParseOk(PyValue("dict", <<>>), k + 1)
                      ELSE ParseMembers(s, j + 1, <<>>)
        ELSE IF s[j] = "["
             THEN LET k == SkipWS(s, j + 1)
                  IN  IF k <= Len(s) /\ s[k] = "]"
                      THEN ParseOk(PyList(<<>>), k + 1)
                      ELSE ParseElements(s, j + 1, <<>>)
        ELSE IF s[j] \in Digits THEN ParseNumber(s, j)
        ELSE IF MatchAt(s, <<"n","u","l","l">>, j) THEN ParseOk(PyNone, j + 4)
        ELSE IF MatchAt(s, <<"t","r","u","e">>, j)
             THEN ParseOk(PyValue("bool", <<"t","r","u","e">>), j + 4)
        ELSE IF MatchAt(s, <<"f","a","l","s","e">>, j)
             THEN ParseOk(PyValue("bool", <<"f","a","l","s","e">>), j + 5)
        ELSE ParseFail

\* json.loads(s): ok = FALSE stands for json.JSONDecodeError
json_loads(s) ==
    LET v == ParseValue(s, 1)
    IN  IF v.ok /\ SkipWS(s, v.next) > Len(s) THEN v ELSE ParseFail

\* key in d, d a parsed object
HasKey(d, key) == \E i \in 1..Len(d.val) : d.val[i][1] = key

\* d[key]: the last pair with that key wins
GetKey(d, key) ==
    d.val[SetMax({i \in 1..Len(d.val) : d.val[i][1] = key})][2]

(***************************************************************************)
(* CVOptimizer._create_fallback_response, _parse_optimization_response     *)
(* The 'summary' entry of the returned dicts is read by no code and is     *)
(* left out.                                                               *)
(***************************************************************************)
_create_fallback_response(original_cv) ==
    [optimized_content |-> PyStr(original_cv),
     improvements      |-> PyList(<<>>),
     fallback_used     |-> TRUE]

SyntheticImprovement ==
    [section      |-> "general",
     original     |-> "Various sections",
     improved     |-> "Enhanced content",
     reason       |-> "LLM optimization applied",
     impact_score |-> 7]

\* len(response) > len(original_cv) * 0.8: the double len * 0.8 is compared
\* with an integer, which 5 * len(response) > 4 * len(original_cv) decides
\* exactly (0.8 rounds up by 2^-54 relative, less than half an ulp of any
\* integer product)
LongEnough(response, original_cv) == 5 * Len(response) > 4 * Len(original_cv)

StructuredResponse(response, original_cv) ==
    [optimized_content |->
         PyStr(IF LongEnough(response, original_cv)
               THEN response ELSE original_cv),
     improvements |-> PyList(<<SyntheticImprovement>>)]

KeyOptimizedContent == <<"o","p","t","i","m","i","z","e","d","_","c","o","n","t","e","n","t">>

KeyImprovements == <<"i","m","p","r","o","v","e","m","e","n","t","s">>

\* response[start_idx:end_idx], defined when both braces were found
EmbeddedJson(response) ==
    Slice(response, find(response, <<"{">>), rfind(response, <<"}">>) + 1)

BracesFound(response) ==
    find(response, <<"{">>) # -1 /\ rfind(response, <<"}">>) + 1 # 0

_parse_optimization_response(response, original_cv) ==
    LET start_idx == find(response, <<"{">>)
        end_idx == rfind(response, <<"}">>) + 1
    IN  IF start_idx # -1 /\ end_idx # 0
        THEN LET json_str == Slice(response, start_idx, end_idx)
                 parsed == json_loads(json_str)
             IN  IF ~parsed.ok
                 THEN _create_fallback_response(original_cv)
                 ELSE IF /\ HasKey(parsed.val, KeyOptimizedContent)
                         /\ HasKey(parsed.val, KeyImprovements)
                      THEN [optimized_content |->
                                GetKey(parsed.val, KeyOptimizedContent),
                            improvements |->
                                GetKey(parsed.val, KeyImprovements)]
                      ELSE StructuredResponse(response, original_cv)
        ELSE StructuredResponse(response, original_cv)

(***************************************************************************)
(* CVOptimizer._fallback_optimization                                      *)
(***************************************************************************)
verb_replacements ==
    << [weak   |-> <<"w","o","r","k","e","d"," ","o","n">>,
        strong |-> <<"d","e","v","e","l","o","p","e","d">>,
        reason |-> "Replaced weak verb \"worked on\" with stronger \"developed\""],
       [weak   |-> <<"h","e","l","p","e","d"," ","w","i","t","h">>,
        strong |-> <<"c","o","n","t","r","i","b","u","t","e","d"," ","t","o">>,
        reason |-> "Replaced weak verb \"helped with\" with stronger \"contributed to\""],
       [weak   |-> <<"w","a","s"," ","r","e","s","p","o","n","s","i","b","l","e"," ","f","o","r">>,
        strong |-> <<"m","a","n","a","g","e","d">>,
        reason |-> "Replaced weak verb \"was responsible for\" with stronger \"managed\""],
       [weak   |-> <<"a","s","s","i","s","t","e","d">>,
        strong |-> <<"s","u","p","p","o","r","t","e","d">>,
        reason |-> "Replaced weak verb \"assisted\" with stronger \"supported\""] >>

FallbackImpact == 6

\* the value of optimized_line after the test of replacement k for a line
ReplaceWeak(line, k, optimized_line) ==
    IF Contains(lower(line), verb_replacements[k].weak)
    THEN replace(lower(line), verb_replacements[k].weak,
                 verb_replacements[k].strong)
    ELSE optimized_line

RECURSIVE FallbackLine(_, _, _, _)
\* the loop over verb_replacements.items() for one line, from entry k on
FallbackLine(line, k, optimized_line, improvements) ==
    IF k > Len(verb_replacements)
    THEN [optimized_line |-> optimized_line, improvements |-> improvements]
    ELSE LET new_line == ReplaceWeak(line, k, optimized_line)
             recorded ==
                 /\ Contains(lower(line), verb_replacements[k].weak)
                 /\ new_line # line
         IN  FallbackLine(line, k + 1, new_line,
                 IF recorded
                 THEN Append(improvements,
                          [section      |-> "experience",
                           original     |-> line,
                           improved     |-> new_line,
                           reason       |-> verb_replacements[k].reason,
                           impact_score |-> FallbackImpact])
                 ELSE improvements)

RECURSIVE FallbackLines(_, _, _, _)
\* the loop over lines, from line i on
FallbackLines(lines, i, optimized_lines, improvements) ==
    IF i > Len(lines)
    THEN [optimized_lines |-> optimized_lines, improvements |-> improvements]
    ELSE LET r == FallbackLine(lines[i], 1, lines[i], improvements)
         IN  FallbackLines(lines, i + 1,
                           Append(optimized_lines, r.optimized_line),
                           r.improvements)

\* the lines are lower-cased before the loop
_fallback_optimization_lower(text) ==
    LET r == FallbackLines(split(lower(text), NL), 1, <<>>, <<>>)
    IN  [optimized_content |-> PyStr(join(NL, r.optimized_lines)),
         improvements      |-> PyList(r.improvements),
         fallback_used     |-> TRUE]

_fallback_optimization(text) ==
    LET r == FallbackLines(split(text, NL), 1, <<>>, <<>>)
    IN  [optimized_content |-> PyStr(join(NL, r.optimized_lines)),
         improvements      |-> PyList(r.improvements),
         fallback_used     |-> TRUE]

(***************************************************************************)
(* CVOptimizer.optimize_cv: the dict it returns.  The entries timestamp,   *)
(* optimization_level and job_description do not depend on the LLM or on   *)
(* the validation and are left out.                                        *)
(***************************************************************************)
\* the returned dict with the optimized content gated by the validation
optimize_cv_return_gated(text, opt_result, validation) ==
    [original_content  |-> text,
     optimized_content |-> IF validation.validation_passed
                           THEN opt_result.optimized_content
                           ELSE PyStr(text),
     improvements      |-> opt_result.improvements,
     validation        |-> validation,
     success           |-> TRUE]

optimize_cv_return(text, opt_result, validation) ==
    [original_content  |-> text,
     optimized_content |-> opt_result.optimized_content,
     improvements      |-> opt_result.improvements,
     validation        |-> validation,
     success           |-> TRUE]

optimize_cv_error(e) == [error |-> e, success |-> FALSE]

(***************************************************************************)
(* Inputs of an optimization request.                                      *)
(***************************************************************************)
CVLines ==
    { <<"-"," ","w","o","r","k","e","d"," ","o","n"," ","x">>,
      <<"-"," ","H","e","l","p","e","d"," ","w","i","t","h"," ","y">>,
      <<"*"," ","w","a","s"," ","r","e","s","p","o","n","s","i","b","l","e"," ","f","o","r"," ","z"," ","a","n","d"," ","a","s","s","i","s","t","e","d">>,
      <<"P","l","a","i","n">>,
      <<>>,
      <<"-"," ","a","r","c","h","i","t","e","c","t","e","d"," ","5">> }

CVTexts == TextsOf(CVLines, MaxLines)

Providers == {"ollama", "openai"}

\* texts the endpoint may put in the "response" field of its body
LLMResponseTexts ==
    { <<>>,
      <<"a","b","c","d">>,
      <<"-"," ","o","r","c","h","e","s","t","r","a","t","e","d"," ","7"," ","a","n","d"," ","t","r","a","n","s","f","o","r","m","e","d"," ","8"," ","o","f"," ","9"," ","t","h","i","n","g","s">>,
      <<"{">>,
      <<"}","{">>,
      <<"{","x","}">>,
      <<"{","}">>,
      <<"{","\"","o","p","t","i","m","i","z","e","d","_","c","o","n","t","e","n","t","\"",":","\"","-"," ","a","r","c","h","i","t","e","c","t","e","d"," ","5","\"",",","\"","i","m","p","r","o","v","e","m","e","n","t","s","\"",":","[","]","}">>,
      <<"S","u","r","e",":"," ","{","\"","o","p","t","i","m","i","z","e","d","_","c","o","n","t","e","n","t","\"",":"," ","\"","P","l","a","i","n","\\","n","-"," ","o","p","t","i","m","i","z","e","d"," ","9","\"",","," ","\"","i","m","p","r","o","v","e","m","e","n","t","s","\"",":"," ","[","]",","," ","\"","s","u","m","m","a","r","y","\"",":"," ","\"","s","\"","}"," ","o","k">>,
      <<"{","\"","o","p","t","i","m","i","z","e","d","_","c","o","n","t","e","n","t","\"",":","5",",","\"","i","m","p","r","o","v","e","m","e","n","t","s","\"",":","[","]","}">>,
      <<"{","\"","o","p","t","i","m","i","z","e","d","_","c","o","n","t","e","n","t","\"",":","\"","x","\"","}">> }

\* "response" may also be null in the body
LLMResponses == {PyStr(t) : t \in LLMResponseTexts} \cup {PyNone}

\* requests.post raised, raise_for_status raised, or response.json() raised
FailureKinds == {"unreachable", "timeout", "http_error", "invalid_body"}

LLMEvents ==
    {[kind |-> k, response |-> PyNone] : k \in FailureKinds}
        \cup {[kind |-> "ok", response |-> r] : r \in LLMResponses}

(***************************************************************************)
(* One request optimize_cv(cv_text), stage by stage.                       *)
(***************************************************************************)
Init ==
    /\ cv_text \in CVTexts
    /\ provider \in Providers
    /\ pc = "START"
    /\ trace = <<"START">>
    /\ llm_calls = 0
    /\ llm_event = NoResult
    /\ optimization_result = NoResult
    /\ validation_result = NoResult
    /\ result = NoResult
    /\ requests = <<>>
    /\ NoValidation
    /\ NoScanner
    /\ NoConfig
    /\ NoCalls

Enter(stage) ==
    /\ pc' = stage
    /\ trace' = Append(trace, stage)

\* _prepare_optimization_context and _create_optimization_prompt: the prompt
\* is a local value that only the endpoint reads
BuildPrompt ==
    /\ pc = "START"
    /\ Enter("PROMPT_BUILT")
    /\ UNCHANGED <<cv_text, provider, llm_calls, llm_event,
                   optimization_result, validation_result, result>>
    /\ UNCHANGED validate_vars
    /\ UNCHANGED <<scan_vars, requests, config_vars, call_vars>>

\* _call_llm_api: one requests.post for provider 'ollama', none otherwise
CallLLM ==
    /\ pc = "PROMPT_BUILT"
    /\ Enter("LLM_CALLED")
    /\ IF provider = "ollama"
       THEN /\ llm_calls' = llm_calls + 1
            /\ llm_event' \in LLMEvents
       ELSE /\ llm_calls' = llm_calls
            /\ llm_event' = [kind |-> "unsupported_provider",
                             response |-> PyNone]
    /\ UNCHANGED <<cv_text, provider, optimization_result,
                   validation_result, result>>
    /\ UNCHANGED validate_vars
    /\ UNCHANGED <<scan_vars, requests, config_vars, call_vars>>

\* _call_llm_api returned: _parse_optimization_response; a response that is
\* not text raises AttributeError at response.find, which the handler of
\* _generate_optimizations turns into _fallback_optimization
ParseResponse ==
    /\ pc = "LLM_CALLED"
    /\ llm_event.kind = "ok"
    /\ IF llm_event.response.type = "str"
       THEN /\ Enter("RESPONSE_PARSED")
            /\ optimization_result' =
                   _parse_optimization_response(llm_event.response.val,
                                                cv_text)
       ELSE /\ Enter("LLM_FAILED")
            /\ optimization_result' = _fallback_optimization(cv_text)
    /\ UNCHANGED <<cv_text, provider, llm_calls, llm_event,
                   validation_result, result>>
    /\ UNCHANGED validate_vars
    /\ UNCHANGED <<scan_vars, requests, config_vars, call_vars>>

\* a failed call answered by one more call instead of the fallback
LLMFailed_retry ==
    /\ pc = "LLM_CALLED"
    /\ llm_event.kind # "ok"
    /\ IF llm_calls < 2
       THEN /\ Enter("PROMPT_BUILT")
            /\ optimization_result' = optimization_result
       ELSE /\ Enter("LLM_FAILED")
            /\ optimization_result' = _fallback_optimization(cv_text)
    /\ UNCHANGED <<cv_text, provider, llm_calls, llm_event,
                   validation_result, result>>
    /\ UNCHANGED validate_vars
    /\ UNCHANGED <<scan_vars, requests, config_vars, call_vars>>

\* _call_llm_api raised: except Exception in _generate_optimizations
LLMFailed ==
    /\ pc = "LLM_CALLED"
    /\ llm_event.kind # "ok"
    /\ Enter("LLM_FAILED")
    /\ optimization_result' = _fallback_optimization(cv_text)
    /\ UNCHANGED <<cv_text, provider, llm_calls, llm_event,
                   validation_result, result>>
    /\ UNCHANGED validate_vars
    /\ UNCHANGED <<scan_vars, requests, config_vars, call_vars>>

\* _validate_improvements(cv_text, optimization_result['optimized_content']);
\* a content that is not text raises AttributeError at .split, which the
\* handler of optimize_cv turns into the error dict
ValidateImprovements ==
    /\ pc \in {"RESPONSE_PARSED", "LLM_FAILED"}
    /\ IF optimization_result.optimized_content.type = "str"
       THEN /\ Enter("VALIDATED")
            /\ validation_result' =
                   _validate_improvements(cv_text,
                       optimization_result.optimized_content.val)
            /\ result' = result
       ELSE /\ Enter("DONE")
            /\ validation_result' = validation_result
            /\ result' = optimize_cv_error("AttributeError")
    /\ UNCHANGED <<cv_text, provider, llm_calls, llm_event,
                   optimization_result>>
    /\ UNCHANGED validate_vars
    /\ UNCHANGED <<scan_vars, requests, config_vars, call_vars>>

\* return of optimize_cv
ReturnResult ==
    /\ pc = "VALIDATED"
    /\ Enter("DONE")
    /\ result' = optimize_cv_return(cv_text, optimization_result,
                                    validation_result)
    /\ UNCHANGED <<cv_text, provider, llm_calls, llm_event,
                   optimization_result, validation_result>>
    /\ UNCHANGED validate_vars
    /\ UNCHANGED <<scan_vars, requests, config_vars, call_vars>>

Next ==
    \/ BuildPrompt
    \/ CallLLM
    \/ ParseResponse
    \/ LLMFailed
    \/ ValidateImprovements
    \/ ReturnResult

Spec == Init /\ [][Next]_vars

(***************************************************************************)
(* Properties of the optimization request (specification Spec).            *)
(***************************************************************************)

\* C1: every optimize_cv request, whatever the endpoint answers, ends with a
\* result that carries an optimized_content and is not an error outcome.
C1_AlwaysOptimizedContent ==
    pc = "DONE" =>
        /\ result.success
        /\ "optimized_content" \in DOMAIN result

\* C2: when the endpoint is unreachable the result of the request has a
\* non-empty optimized_content and carries fallback_used = true.
C2_UnreachableFallbackFlag ==
    (pc = "DONE" /\ llm_event.kind = "unreachable") =>
        /\ "optimized_content" \in DOMAIN result
        /\ result.optimized_content.type = "str"
        /\ Len(result.optimized_content.val) > 0
        /\ "fallback_used" \in DOMAIN result
        /\ result.fallback_used = TRUE

\* C3: a request issues at most one call to the endpoint; after a failed call
\* the next step is the rule-based fallback and no further call is made.
C3_NoRetry ==
    [][ /\ llm_calls' <= 1
        /\ (pc = "LLM_CALLED" /\ llm_event.kind \in FailureKinds) =>
               /\ pc' = "LLM_FAILED"
               /\ llm_calls' = llm_calls
               /\ "fallback_used" \in DOMAIN optimization_result' ]_vars

C3_Witness ==
    /\ pc = "LLM_FAILED"
    /\ llm_event.kind = "timeout"
    /\ llm_calls = 1

StageOrders ==
    { <<"START", "PROMPT_BUILT", "LLM_CALLED", "RESPONSE_PARSED",
        "VALIDATED", "DONE">>,
      <<"START", "PROMPT_BUILT", "LLM_CALLED", "LLM_FAILED",
        "VALIDATED", "DONE">> }

\* C4: the stages of a request are entered in the order START, PROMPT_BUILT,
\* LLM_CALLED, one of RESPONSE_PARSED or LLM_FAILED, VALIDATED, DONE: at every
\* moment the stages entered so far are a prefix of one of the two orders.
C4_StageOrder ==
    \E order \in StageOrders :
        /\ Len(trace) <= Len(order)
        /\ trace = SubSeq(order, 1, Len(trace))

\* C5: the optimized_content of a returned result is the content produced by
\* the parse or fallback step, whether validation_passed is true or false;
\* the validation is returned beside it.
C5_ValidationAdvisory ==
    (pc = "DONE" /\ result.success) =>
        /\ result.optimized_content = optimization_result.optimized_content
        /\ result.validation = validation_result
        /\ result.validation.validation_passed
               = (result.validation.improvement_score >= PassThreshold)

C5_Witness ==
    /\ pc = "DONE"
    /\ result.success
    /\ ~result.validation.validation_passed
    /\ result.optimized_content.val # cv_text

\* the response holds both braces and the text between them is not JSON
MalformedJson(response) ==
    /\ BracesFound(response)
    /\ ~json_loads(EmbeddedJson(response)).ok

\* the text between the braces is a JSON object without one of the keys
MissingKeys(response) ==
    /\ BracesFound(response)
    /\ json_loads(EmbeddedJson(response)).ok
    /\ ~ /\ HasKey(json_loads(EmbeddedJson(response)).val, KeyOptimizedContent)
         /\ HasKey(json_loads(EmbeddedJson(response)).val, KeyImprovements)

\* C8: when the text between the first '{' and the last '}' is not JSON, or is
\* JSON without optimized_content or improvements, the parse step returns the
\* original text if the response is shorter than 80% of it and the raw
\* response otherwise, with exactly one synthetic improvement record.
C8_StructuredFallback ==
    (/\ pc = "RESPONSE_PARSED"
     /\ \/ MalformedJson(llm_event.response.val)
        \/ MissingKeys(llm_event.response.val)) =>
        /\ optimization_result.optimized_content.type = "str"
        /\ optimization_result.optimized_content.val =
               IF 5 * Len(llm_event.response.val) < 4 * Len(cv_text)
               THEN cv_text
               ELSE llm_event.response.val
        /\ optimization_result.improvements.type = "list"
        /\ Len(optimization_result.improvements.val) = 1
        /\ optimization_result.improvements.val[1].section = "general"
        /\ optimization_result.improvements.val[1].impact_score = 7

\* C9: network failure, timeout, non-200 response and malformed embedded JSON
\* each end with the output of the weak-verb substitution on the original
\* text as the optimized content of the request.
C9_ErrorsUseRuleBasedFallback ==
    (/\ pc = "DONE"
     /\ \/ llm_event.kind \in {"unreachable", "timeout", "http_error"}
        \/ /\ llm_event.kind = "ok"
           /\ llm_event.response.type = "str"
           /\ MalformedJson(llm_event.response.val)) =>
        /\ "optimized_content" \in DOMAIN result
        /\ result.optimized_content.type = "str"
        /\ result.optimized_content.val =
               _fallback_optimization(cv_text).optimized_content.val

\* C10: in the rule-based fallback, every line that contains a weak phrase of
\* the map has the mapped strong phrase in the corresponding optimized line,
\* and that substitution has its own improvement record with impact_score 6.
C10_WeakPhrasesReplaced ==
    pc = "LLM_FAILED" =>
        LET lines == split(cv_text, NL)
            optimized_lines ==
                split(optimization_result.optimized_content.val, NL)
            records == optimization_result.improvements.val
        IN  /\ Len(optimized_lines) = Len(lines)
            /\ \A i \in 1..Len(lines) : \A k \in 1..Len(verb_replacements) :
                   Contains(lower(lines[i]), verb_replacements[k].weak) =>
                       /\ Contains(optimized_lines[i],
                                   verb_replacements[k].strong)
                       /\ \E j \in 1..Len(records) :
                              /\ records[j].original = lines[i]
                              /\ records[j].reason =
                                     verb_replacements[k].reason
                              /\ records[j].impact_score = 6

(***************************************************************************)
(* Properties of _validate_improvements (specification SpecValidate).      *)
(***************************************************************************)

\* C6: validating a text against itself gives improvement_score 45 (bullet
\* bonus 25 plus length bonus 20) and validation_passed false.
C6_IdenticalScores45 ==
    (v_result # NoResult /\ v_optimized = v_original) =>
        /\ v_result.improvement_score = 45
        /\ v_result.validation_passed = FALSE

C6_Witness ==
    /\ v_result # NoResult
    /\ v_optimized = v_original
    /\ v_result.original_analysis.quantified_bullets > 0
    /\ v_result.original_analysis.power_verb_count > 0

\* quantified / max(bullets, 1) of the optimized text exceeds that of the
\* original text
RateIncreased(orig, opt) ==
    opt.quantified_bullets * Max(orig.total_bullets, 1)
        > orig.quantified_bullets * Max(opt.total_bullets, 1)

\* C7: improvement_score is 30 iff the quantification rate increased, plus 25
\* iff the power-verb count increased, plus 20 iff the word-count change is in
\* [-50, 200], plus 25 iff the bullet count did not decrease; validation_passed
\* iff improvement_score >= 50.
C7_ScoreIsSumOfBonuses ==
    v_result # NoResult =>
        LET orig == v_result.original_analysis
            opt == v_result.optimized_analysis
            change == WordCount(v_optimized) - WordCount(v_original)
            sum == (IF RateIncreased(orig, opt) THEN 30 ELSE 0)
                 + (IF opt.power_verb_count > orig.power_verb_count
                    THEN 25 ELSE 0)
                 + (IF change >= -50 /\ change <= 200 THEN 20 ELSE 0)
                 + (IF opt.total_bullets >= orig.total_bullets
                    THEN 25 ELSE 0)
        IN  /\ v_result.improvement_score = sum
            /\ v_result.validation_passed = (sum >= 50)

C7_Witness ==
    /\ v_result # NoResult
    /\ WordCount(v_optimized) - WordCount(v_original) = 200
    /\ v_result.improvement_score = 75
    /\ v_result.validation_passed

(***************************************************************************)
(* Regular expressions of the scanners (src/ats_app/scanner.py and         *)
(* src/ats_app/enhanced_scanner.py).  Positions are 1-based; the end of a  *)
(* match is the position after its last character.  A pattern is given by  *)
(* the function that maps every position at which the pattern matches to   *)
(* the end of the match the engine takes there (first alternative that     *)
(* matches, greedy and lazy quantifiers as written); re.findall then walks *)
(* the text from left to right and keeps the leftmost matches that do not  *)
(* overlap.  Every pattern of the scanners matches at least one character. *)
(***************************************************************************)
Letters == UpperSet \cup {LowerCase[i] : i \in 1..26}

\* \w
WordChars == Letters \cup Digits \cup {"_"}

\* s[i], or "" where the text has no character
CharAt(s, i) == IF i \in 1..Len(s) THEN s[i] ELSE ""

\* position after the longest run of characters of class cls that starts at i
RunEnd(s, i, cls) ==
    SetMin({k \in i..Len(s) : s[k] \notin cls} \cup {Len(s) + 1})

\* first position >= i that holds a character of class cls, or len(s)+1
NextIn(s, i, cls) ==
    SetMin({k \in i..Len(s) : s[k] \in cls} \cup {Len(s) + 1})

\* position of the line break that ends the line of position i, or len(s)+1
LineEnd(s, i) == NextIn(s, i, {NL})

\* positions where ^ matches under re.MULTILINE and a character follows
LineStarts(s) == {i \in 1..Len(s) : i = 1 \/ s[i - 1] = NL}

\* F(value), the value being computed once however often F uses it
With(value, F(_)) == CHOOSE r \in {F(x) : x \in {value}} : TRUE

RECURSIVE MatchesFrom(_, _)
\* the leftmost matches that do not overlap, from the candidate starts on
MatchesFrom(ends, starts) ==
    IF starts = {} THEN <<>>
    ELSE With(SetMin(starts), LAMBDA i :
            <<[start |-> i, end |-> ends[i]]>>
            \o MatchesFrom(ends, {k \in starts : k >= ends[i]}))

\* re.findall: the matches as [start, end), scanning from position from
findall(ends, from) ==
    With(ends, LAMBDA e : MatchesFrom(e, {i \in DOMAIN e : i >= from}))

\* the text of a match
MatchText(s, m) == SubSeq(s, m.start, m.end - 1)

\* ^\s*[U+2022\-\*] with re.MULTILINE, followed by .*$ when whole_line:
\* \s* also runs over line breaks, so a match may begin on a blank line
\* above the bullet
BulletPattern(s, whole_line) ==
    [i \in {k \in LineStarts(s) :
                CharAt(s, LStripIndex(s, k)) \in BulletGlyphs}
       |-> IF whole_line THEN LineEnd(s, LStripIndex(s, i))
                         ELSE LStripIndex(s, i) + 1]

\* \d+[%$]?|\$\d+
NumberPattern(s) ==
    [i \in {k \in 1..Len(s) :
                \/ s[k] \in Digits
                \/ s[k] = "$" /\ CharAt(s, k + 1) \in Digits}
       |-> IF s[i] \in Digits
           THEN LET e == RunEnd(s, i, Digits)
                IN  IF CharAt(s, e) \in {"%", "$"} THEN e + 1 ELSE e
           ELSE RunEnd(s, i + 1, Digits)]

\* re.search(r'\d+[%$]?|\$\d+|\d+\+|\d+x|\d+ years?', s, re.I): the last three
\* alternatives begin with \d+, where the first alternative already matches
QuantifiedPattern(s) == NumberPattern(s)

\* [\w.-]
EmailChars == WordChars \cup {".", "-"}

\* re.search(r'[\w.-]+@[\w.-]+\.\w+', s)
EmailFound(s) ==
    \E i \in 2..Len(s) :
        /\ s[i] = "@"
        /\ s[i - 1] \in EmailChars
        /\ \E j \in (i + 2)..(Len(s) - 1) :
               /\ \A k \in (i + 1)..(j - 1) : s[k] \in EmailChars
               /\ s[j] = "."
               /\ s[j + 1] \in WordChars

\* \d{n} at position i
DigitsAt(s, i, n) == \A k \in 0..(n - 1) : CharAt(s, i + k) \in Digits

\* re.search(r'\(?\d{3}\)?[-.]?\d{3}[-.]?\d{4}', s)
PhoneFound(s) ==
    \E p \in 1..Len(s) : \E a, b, c \in {0, 1} :
        /\ DigitsAt(s, p, 3)
        /\ a = 1 => CharAt(s, p + 3) = ")"
        /\ b = 1 => CharAt(s, p + 3 + a) \in {"-", "."}
        /\ DigitsAt(s, p + 3 + a + b, 3)
        /\ c = 1 => CharAt(s, p + 6 + a + b) \in {"-", "."}
        /\ DigitsAt(s, p + 6 + a + b + c, 4)

\* len(re.findall(r'[^\w\s\-.,!?()%$]', s))
SpecialCharCount(s) ==
    Cardinality({i \in 1..Len(s) :
        s[i] \notin WordChars \cup Whitespace
                     \cup {"-", ".", ",", "!", "?", "(", ")", "%", "$"}})

SentenceEnders == {".", "!", "?"}

\* len([p for p in re.split(r'[.!?]+', s) if p.strip()]): the pieces between
\* runs of sentence enders that hold a character other than whitespace
SentenceCount(s) ==
    Cardinality({i \in 1..Len(s) :
        /\ s[i] \notin SentenceEnders
        /\ i = 1 \/ s[i - 1] \in SentenceEnders
        /\ \E k \in i..(NextIn(s, i, SentenceEnders) - 1) :
               s[k] \notin Whitespace})

\* re.findall(r'\b[a-z]{3,}\b', s) holds the word w of lower-case letters:
\* w fills a whole run of lower-case letters that has no \w character on
\* either side
IsJobTerm(s, w) ==
    \E i \in 1..Len(s) :
        /\ Len(w) >= 3
        /\ MatchAt(s, w, i)
        /\ CharAt(s, i - 1) \notin WordChars
        /\ CharAt(s, i + Len(w)) \notin WordChars

(***************************************************************************)
(* Python floats of the scanners are kept as exact fractions (see Ratio).  *)
(* Every dict value that the code computes with / is a fraction, also when *)
(* its value is whole.                                                     *)
(***************************************************************************)
Min(a, b) == IF a <= b THEN a ELSE b

RatioOf(n) == [num |-> n, den |-> 1]

RatioAdd(a, b) ==
    LET l == (a.den \div GCD(a.den, b.den)) * b.den
    IN  Ratio(a.num * (l \div a.den) + b.num * (l \div b.den), l)

RatioMul(a, b) ==
    LET g1 == GCD(Abs(a.num), b.den)
        g2 == GCD(Abs(b.num), a.den)
    IN  Ratio((a.num \div g1) * (b.num \div g2),
              (a.den \div g2) * (b.den \div g1))

\* a * (n / d) for an int or float a that is whole
Weighted(a, n, d) == RatioMul(a, Ratio(n, d))

RatioLeq(a, b) == a.num * b.den <= b.num * a.den

RatioMin(a, b) == IF RatioLeq(a, b) THEN a ELSE b

RatioMax(a, b) == IF RatioLeq(a, b) THEN b ELSE a

RECURSIVE RatioSum(_)
\* sum(values)
RatioSum(values) ==
    IF values = <<>> THEN RatioOf(0)
    ELSE RatioAdd(values[1], RatioSum(Tail(values)))

\* int(x): truncation toward zero
int(x) ==
    IF x.num >= 0 THEN x.num \div x.den ELSE -((-x.num) \div x.den)

(***************************************************************************)
(* ATSScanner (src/ats_app/scanner.py).  The dicts the methods return are  *)
(* records with the keys of the code; 'timestamp' (the wall clock) is left *)
(* out of the scan result.                                                 *)
(***************************************************************************)
\* self.ats_keywords as __init__ builds it
ats_keywords ==
    [power_verbs |-> <<
        <<"a","c","h","i","e","v","e","d">>, <<"a","n","a","l","y","z","e","d">>, <<"a","r","c","h","i","t","e","c","t","e","d">>, <<"a","u","t","o","m","a","t","e","d">>,
        <<"b","u","i","l","t">>, <<"c","o","l","l","a","b","o","r","a","t","e","d">>, <<"c","r","e","a","t","e","d">>, <<"d","e","l","i","v","e","r","e","d">>,
        <<"d","e","s","i","g","n","e","d">>, <<"d","e","v","e","l","o","p","e","d">>, <<"e","n","h","a","n","c","e","d">>, <<"e","x","e","c","u","t","e","d">>,
        <<"i","m","p","l","e","m","e","n","t","e","d">>, <<"i","m","p","r","o","v","e","d">>, <<"i","n","c","r","e","a","s","e","d">>, <<"l","e","d">>,
        <<"m","a","n","a","g","e","d">>, <<"o","p","t","i","m","i","z","e","d">>, <<"o","r","c","h","e","s","t","r","a","t","e","d">>, <<"p","r","o","d","u","c","e","d">>,
        <<"r","e","d","u","c","e","d">>, <<"r","e","s","o","l","v","e","d">>, <<"s","p","e","a","r","h","e","a","d","e","d">>, <<"s","t","r","e","a","m","l","i","n","e","d">> >>,
     technical_skills |-> <<
        <<"p","y","t","h","o","n">>, <<"j","a","v","a">>, <<"j","a","v","a","s","c","r","i","p","t">>, <<"d","o","c","k","e","r">>, <<"k","u","b","e","r","n","e","t","e","s">>,
        <<"a","w","s">>, <<"a","z","u","r","e">>, <<"d","e","v","o","p","s">>, <<"c","i","/","c","d">>, <<"j","e","n","k","i","n","s">>, <<"g","i","t">>,
        <<"l","i","n","u","x">>, <<"s","q","l">>, <<"n","o","s","q","l">>, <<"m","o","n","g","o","d","b">>, <<"p","o","s","t","g","r","e","s","q","l">>,
        <<"r","e","d","i","s">>, <<"e","l","a","s","t","i","c","s","e","a","r","c","h">>, <<"k","a","f","k","a">>, <<"m","i","c","r","o","s","e","r","v","i","c","e","s">>,
        <<"a","p","i">>, <<"r","e","s","t">>, <<"g","r","a","p","h","q","l">>, <<"t","e","r","r","a","f","o","r","m">>, <<"a","n","s","i","b","l","e">>,
        <<"p","r","o","m","e","t","h","e","u","s">>, <<"g","r","a","f","a","n","a">> >>,
     soft_skills |-> <<
        <<"l","e","a","d","e","r","s","h","i","p">>, <<"c","o","m","m","u","n","i","c","a","t","i","o","n">>, <<"t","e","a","m","w","o","r","k">>,
        <<"p","r","o","b","l","e","m","-","s","o","l","v","i","n","g">>, <<"a","n","a","l","y","t","i","c","a","l">>, <<"c","r","i","t","i","c","a","l"," ","t","h","i","n","k","i","n","g">>,
        <<"a","d","a","p","t","a","b","i","l","i","t","y">>, <<"m","e","n","t","o","r","i","n","g">>, <<"c","o","l","l","a","b","o","r","a","t","i","o","n">>,
        <<"p","r","o","j","e","c","t"," ","m","a","n","a","g","e","m","e","n","t">>, <<"s","t","a","k","e","h","o","l","d","e","r"," ","m","a","n","a","g","e","m","e","n","t">>,
        <<"c","r","o","s","s","-","f","u","n","c","t","i","o","n","a","l">> >>]

\* [w for w in words if w in text]
FoundIn(words, text) == SelectSeq(words, LAMBDA w : Contains(text, w))

\* set(words)
SetOf(words) == {words[i] : i \in 1..Len(words)}

\* the hardcoded list of _extract_jd_keywords
JobTechnicalTerms ==
    << <<"p","y","t","h","o","n">>, <<"j","a","v","a">>, <<"d","o","c","k","e","r">>, <<"a","w","s">>, <<"k","u","b","e","r","n","e","t","e","s">> >>

\* the keyword list is built from a set: each keyword once, order irrelevant
_extract_jd_keywords(keywords, job_description) ==
    LET jd_lower == lower(job_description)
        all_keywords == keywords.technical_skills \o keywords.soft_skills
        technical_terms ==
            SelectSeq(JobTechnicalTerms, LAMBDA t : IsJobTerm(jd_lower, t))
    IN  SetOf(all_keywords \o technical_terms)

_analyze_keywords(keywords, text, job_description) ==
    LET cv_lower == lower(text)
        power_verb_count == Len(FoundIn(keywords.power_verbs, cv_lower))
        tech_skills_found == FoundIn(keywords.technical_skills, cv_lower)
        soft_skills_found == FoundIn(keywords.soft_skills, cv_lower)
        jd_keywords == _extract_jd_keywords(keywords, job_description)
        matched_keywords == {kw \in jd_keywords : Contains(cv_lower, kw)}
        jd_match_score ==
            IF job_description # <<>>
            THEN Ratio(Cardinality(matched_keywords) * 100,
                       Max(Cardinality(jd_keywords), 1))
            ELSE RatioOf(0)
    IN  [power_verbs |->
            [count |-> power_verb_count,
             score |-> Min(power_verb_count * 10, 100)],
         technical_skills |->
            [found |-> tech_skills_found,
             count |-> Len(tech_skills_found),
             score |-> Min(Len(tech_skills_found) * 5, 100)],
         soft_skills |->
            [found |-> soft_skills_found,
             count |-> Len(soft_skills_found),
             score |-> Min(Len(soft_skills_found) * 10, 100)],
         job_match |->
            [score |-> jd_match_score,
             matched_count |-> IF job_description # <<>>
                               THEN Cardinality(matched_keywords) ELSE 0]]

\* re.search(r'(a|b|c)', text, re.I) for alternatives of lower-case letters
SearchAny(alternatives, text) ==
    \E i \in 1..Len(alternatives) : Contains(lower(text), alternatives[i])

_analyze_formatting(text) ==
    LET lines == split(text, NL)
        sections_found ==
            [contact    |-> SearchAny(<< <<"e","m","a","i","l">>, <<"p","h","o","n","e">>,
                                         <<"l","i","n","k","e","d","i","n">> >>, text),
             summary    |-> SearchAny(<< <<"s","u","m","m","a","r","y">>, <<"p","r","o","f","i","l","e">>,
                                         <<"o","b","j","e","c","t","i","v","e">> >>, text),
             experience |-> SearchAny(<< <<"e","x","p","e","r","i","e","n","c","e">>, <<"w","o","r","k">>,
                                         <<"e","m","p","l","o","y","m","e","n","t">> >>, text),
             education  |-> SearchAny(<< <<"e","d","u","c","a","t","i","o","n">> >>, text),
             skills     |-> SearchAny(<< <<"s","k","i","l","l","s">> >>, text)]
        section_score ==
            Ratio(Cardinality({k \in DOMAIN sections_found :
                                  sections_found[k]}) * 100,
                  Cardinality(DOMAIN sections_found))
        bullet_count == Len(SelectSeq(lines, IsBullet))
        bullet_score == Min(bullet_count * 5, 100)
    IN  [sections |-> sections_found,
         section_score |-> section_score,
         bullet_points |-> bullet_count,
         bullet_score |-> bullet_score,
         overall_formatting_score |->
            Weighted(RatioAdd(section_score, RatioOf(bullet_score)), 1, 2)]

_analyze_content_quality(text) ==
    LET word_count == WordCount(text)
        sentence_count == SentenceCount(text)
        bullet_points == Len(findall(BulletPattern(text, FALSE), 1))
        quantified_achievements == Len(findall(NumberPattern(text), 1))
    IN  [word_count |-> word_count,
         sentence_count |-> sentence_count,
         avg_words_per_sentence |-> Ratio(word_count, Max(sentence_count, 1)),
         bullet_points |-> bullet_points,
         quantified_achievements |-> quantified_achievements,
         quality_score |->
            Min((bullet_points * 5) + (quantified_achievements * 10), 100)]

TabPenalty == 10
SpecialCharLimit == 50
SpecialCharPenalty == 15
NoEmailPenalty == 20
NoPhonePenalty == 10

_analyze_ats_compatibility(text) ==
    LET has_tab == Contains(text, <<"\t">>)
        special == SpecialCharCount(text) > SpecialCharLimit
        email_found == EmailFound(text)
        phone_found == PhoneFound(text)
        score == 100 - (IF has_tab THEN TabPenalty ELSE 0)
                     - (IF special THEN SpecialCharPenalty ELSE 0)
                     - (IF email_found THEN 0 ELSE NoEmailPenalty)
                     - (IF phone_found THEN 0 ELSE NoPhonePenalty)
    IN  [score |-> Max(score, 0),
         issues |->
            (IF has_tab THEN << <<"C","o","n","t","a","i","n","s"," ","t","a","b"," ","c","h","a","r","a","c","t","e","r","s">> >> ELSE <<>>)
            \o (IF special THEN << <<"E","x","c","e","s","s","i","v","e"," ","s","p","e","c","i","a","l"," ","c","h","a","r","a","c","t","e","r","s">> >>
                ELSE <<>>)
            \o (IF email_found THEN <<>>
                ELSE << <<"N","o"," ","e","m","a","i","l"," ","a","d","d","r","e","s","s"," ","f","o","u","n","d">> >>)
            \o (IF phone_found THEN <<>>
                ELSE << <<"N","o"," ","p","h","o","n","e"," ","n","u","m","b","e","r"," ","f","o","u","n","d">> >>),
         contact_info |-> [email_found |-> email_found,
                           phone_found |-> phone_found]]

\* the texts of re.findall(r'^\s*[U+2022\-\*].*$', text, re.MULTILINE)
BulletLines(text) ==
    LET matches == findall(BulletPattern(text, TRUE), 1)
    IN  [i \in 1..Len(matches) |-> MatchText(text, matches[i])]

IsQuantifiedBullet(bullet) == DOMAIN QuantifiedPattern(bullet) # {}

\* quantified_count // total_bullets * 100
quantification_rate_floor_division(quantified_count, total_bullets) ==
    RatioOf((quantified_count \div Max(total_bullets, 1)) * 100)

\* (quantified_count / max(total_bullets, 1)) * 100
quantification_rate(quantified_count, total_bullets) ==
    Ratio(quantified_count * 100, Max(total_bullets, 1))

_analyze_quantification(text) ==
    LET bullet_lines == BulletLines(text)
        quantified_bullets ==
            LET hits == SelectSeq(bullet_lines, IsQuantifiedBullet)
            IN  [i \in 1..Len(hits) |-> strip(hits[i])]
        total_bullets == Len(bullet_lines)
        quantified_count == Len(quantified_bullets)
        rate == quantification_rate(quantified_count, total_bullets)
    IN  [total_bullets |-> total_bullets,
         quantified_bullets |-> quantified_count,
         quantification_rate |-> rate,
         quantified_examples |->
            SubSeq(quantified_bullets, 1, Min(quantified_count, 5)),
         score |-> rate]

\* the keyword score enters the sum without its weight of 0.30
_calculate_overall_score_unweighted_keywords(sections) ==
    LET keyword_score ==
            RatioSum(<<
                Weighted(RatioOf(sections.keywords.power_verbs.score), 3, 10),
                Weighted(RatioOf(sections.keywords.technical_skills.score),
                         4, 10),
                Weighted(RatioOf(sections.keywords.soft_skills.score), 2, 10),
                Weighted(sections.keywords.job_match.score, 1, 10) >>)
        scores == <<
            keyword_score,
            Weighted(sections.formatting.overall_formatting_score, 25, 100),
            Weighted(RatioOf(sections.content_quality.quality_score), 2, 10),
            Weighted(RatioOf(sections.ats_compatibility.score), 15, 100),
            Weighted(sections.quantification.score, 1, 10) >>
    IN  int(RatioSum(scores))

_calculate_overall_score(sections) ==
    LET keyword_score ==
            RatioSum(<<
                Weighted(RatioOf(sections.keywords.power_verbs.score), 3, 10),
                Weighted(RatioOf(sections.keywords.technical_skills.score),
                         4, 10),
                Weighted(RatioOf(sections.keywords.soft_skills.score), 2, 10),
                Weighted(sections.keywords.job_match.score, 1, 10) >>)
        scores == <<
            Weighted(keyword_score, 3, 10),
            Weighted(sections.formatting.overall_formatting_score, 25, 100),
            Weighted(RatioOf(sections.content_quality.quality_score), 2, 10),
            Weighted(RatioOf(sections.ats_compatibility.score), 15, 100),
            Weighted(sections.quantification.score, 1, 10) >>
    IN  int(RatioSum(scores))

MaxRecommendations == 10

_generate_recommendations(sections) ==
    LET recommendations ==
            (IF sections.keywords.power_verbs.count < 5
             THEN << <<"A","d","d"," ","m","o","r","e"," ","p","o","w","e","r"," ","v","e","r","b","s"," ","t","o"," ","s","t","r","e","n","g","t","h","e","n"," ","i","m","p","a","c","t"," ","s","t","a","t","e","m","e","n","t","s">> >>
             ELSE <<>>)
            \o (IF sections.keywords.technical_skills.count < 8
                THEN << <<"I","n","c","l","u","d","e"," ","m","o","r","e"," ","r","e","l","e","v","a","n","t"," ","t","e","c","h","n","i","c","a","l"," ","s","k","i","l","l","s"," ","f","r","o","m"," ","y","o","u","r"," ","e","x","p","e","r","i","e","n","c","e">> >>
                ELSE <<>>)
            \o (IF ~sections.formatting.sections.summary
                THEN << <<"A","d","d"," ","a"," ","p","r","o","f","e","s","s","i","o","n","a","l"," ","s","u","m","m","a","r","y"," ","o","r"," ","o","b","j","e","c","t","i","v","e"," ","s","e","c","t","i","o","n">> >>
                ELSE <<>>)
            \o (IF sections.formatting.bullet_points < 10
                THEN << <<"U","s","e"," ","m","o","r","e"," ","b","u","l","l","e","t"," ","p","o","i","n","t","s"," ","t","o"," ","i","m","p","r","o","v","e"," ","r","e","a","d","a","b","i","l","i","t","y">> >>
                ELSE <<>>)
            \o (IF sections.content_quality.quantified_achievements < 5
                THEN << <<"A","d","d"," ","m","o","r","e"," ","q","u","a","n","t","i","f","i","e","d"," ","a","c","h","i","e","v","e","m","e","n","t","s"," ","w","i","t","h"," ","s","p","e","c","i","f","i","c"," ","n","u","m","b","e","r","s"," ","a","n","d"," ","r","e","s","u","l","t","s">> >>
                ELSE <<>>)
            \o [i \in 1..Len(sections.ats_compatibility.issues) |->
                   <<"F","i","x"," ","A","T","S"," ","i","s","s","u","e",":"," ">>
                   \o sections.ats_compatibility.issues[i]]
            \o (IF ~RatioLeq(RatioOf(60),
                             sections.quantification.quantification_rate)
                THEN << <<"Q","u","a","n","t","i","f","y"," ","m","o","r","e"," ","o","f"," ","y","o","u","r"," ","a","c","h","i","e","v","e","m","e","n","t","s"," ","w","i","t","h"," ","s","p","e","c","i","f","i","c"," ","m","e","t","r","i","c","s"," ","a","n","d"," ","n","u","m","b","e","r","s">> >>
                ELSE <<>>)
    IN  SubSeq(recommendations, 1,
               Min(Len(recommendations), MaxRecommendations))

(***************************************************************************)
(* The CV file.  suffix is Path.suffix; status tells what reading it does: *)
(* "ok" the file opens and its content decodes (for .docx: python-docx     *)
(* parses it and text is its paragraphs joined by line breaks), "missing"  *)
(* no such file or no permission, "undecodable" the bytes are not UTF-8    *)
(* (for .docx: not a valid document, or python-docx is not installed).     *)
(***************************************************************************)
CVFile(suffix, status, text) ==
    [suffix |-> suffix, status |-> status, text |-> text]

\* what a call did: returned a value, or raised the exception e
Returned(value) == [raised |-> FALSE, value |-> value]

Raised(e) == [raised |-> TRUE, error |-> e]

\* the exception that reading the file raises
ReadError(cv_path) ==
    IF cv_path.status = "missing" THEN "OSError" ELSE "UnicodeDecodeError"

\* the handler logs the error and raises it again
_extract_text_reraise(cv_path) ==
    IF lower(cv_path.suffix) = <<".","p","d","f">>
    THEN Returned(<<>>)
    ELSE IF cv_path.status = "ok" THEN Returned(cv_path.text)
    ELSE Raised(ReadError(cv_path))

\* .docx and every suffix other than .pdf read the file; the handler turns
\* every exception into the empty text
_extract_text(cv_path) ==
    IF lower(cv_path.suffix) = <<".","d","o","c","x">>
    THEN IF cv_path.status = "ok" THEN Returned(cv_path.text)
         ELSE Returned(<<>>)
    ELSE IF lower(cv_path.suffix) = <<".","p","d","f">>
    THEN Returned(<<>>)
    ELSE IF cv_path.status = "ok" THEN Returned(cv_path.text)
    ELSE Returned(<<>>)

\* the sections of scan_cv's result
ScanSections(keywords, text, job_description) ==
    [keywords |-> _analyze_keywords(keywords, text, job_description),
     formatting |-> _analyze_formatting(text),
     content_quality |-> _analyze_content_quality(text),
     ats_compatibility |-> _analyze_ats_compatibility(text),
     quantification |-> _analyze_quantification(text)]

\* an exception of the body reaches the handler of scan_cv, which returns
\* the error dict
scan_cv(keywords, cv_path, job_description) ==
    With(_extract_text(cv_path), LAMBDA extracted :
        IF extracted.raised THEN [error |-> extracted.error]
        ELSE With(ScanSections(keywords, extracted.value, job_description),
                  LAMBDA sections :
                [cv_path |-> cv_path,
                 overall_score |-> _calculate_overall_score(sections),
                 sections |-> sections,
                 recommendations |-> _generate_recommendations(sections)]))

(***************************************************************************)
(* EnhancedATSScanner (src/ats_app/enhanced_scanner.py).                   *)
(***************************************************************************)
\* {**self.ats_keywords, 'tier1_verbs': ..., ...} as __init__ builds it
enhanced_keywords ==
    [power_verbs |-> ats_keywords.power_verbs,
     technical_skills |-> ats_keywords.technical_skills,
     soft_skills |-> ats_keywords.soft_skills,
     tier1_verbs |-> <<
        <<"a","r","c","h","i","t","e","c","t","e","d">>, <<"o","r","c","h","e","s","t","r","a","t","e","d">>, <<"s","p","e","a","r","h","e","a","d","e","d">>, <<"p","i","o","n","e","e","r","e","d">>,
        <<"t","r","a","n","s","f","o","r","m","e","d">>, <<"r","e","v","o","l","u","t","i","o","n","i","z","e","d">>, <<"o","p","t","i","m","i","z","e","d">>,
        <<"s","t","r","e","a","m","l","i","n","e","d">>, <<"a","u","t","o","m","a","t","e","d">>, <<"s","c","a","l","e","d">> >>,
     tier2_verbs |-> <<
        <<"d","e","v","e","l","o","p","e","d">>, <<"i","m","p","l","e","m","e","n","t","e","d">>, <<"c","r","e","a","t","e","d">>, <<"b","u","i","l","t">>,
        <<"d","e","s","i","g","n","e","d">>, <<"m","a","n","a","g","e","d">>, <<"l","e","d">>, <<"d","e","l","i","v","e","r","e","d">>, <<"e","x","e","c","u","t","e","d">>,
        <<"c","o","o","r","d","i","n","a","t","e","d">> >>,
     tier3_verbs |-> <<
        <<"a","s","s","i","s","t","e","d">>, <<"h","e","l","p","e","d">>, <<"p","a","r","t","i","c","i","p","a","t","e","d">>, <<"s","u","p","p","o","r","t","e","d">>,
        <<"c","o","n","t","r","i","b","u","t","e","d">>, <<"w","o","r","k","e","d">>, <<"i","n","v","o","l","v","e","d">>, <<"c","o","l","l","a","b","o","r","a","t","e","d">>,
        <<"e","n","g","a","g","e","d">>, <<"h","a","n","d","l","e","d">> >>,
     leadership_indicators |-> <<
        <<"l","e","d"," ","t","e","a","m">>, <<"m","a","n","a","g","e","d">>, <<"s","u","p","e","r","v","i","s","e","d">>, <<"m","e","n","t","o","r","e","d">>,
        <<"c","o","a","c","h","e","d">>, <<"d","i","r","e","c","t","e","d">>, <<"o","v","e","r","s","a","w">>, <<"g","u","i","d","e","d">>, <<"t","r","a","i","n","e","d">>,
        <<"d","e","v","e","l","o","p","e","d"," ","t","e","a","m">> >>,
     impact_indicators |-> <<
        <<"r","e","d","u","c","e","d">>, <<"i","n","c","r","e","a","s","e","d">>, <<"i","m","p","r","o","v","e","d">>, <<"e","n","h","a","n","c","e","d">>,
        <<"o","p","t","i","m","i","z","e","d">>, <<"d","e","c","r","e","a","s","e","d">>, <<"a","c","c","e","l","e","r","a","t","e","d">>, <<"g","e","n","e","r","a","t","e","d">>,
        <<"s","a","v","e","d">>, <<"a","c","h","i","e","v","e","d">> >>]

\* the instance state EnhancedATSScanner.__init__ leaves
NewScanner ==
    [ats_keywords |-> ats_keywords, enhanced_keywords |-> enhanced_keywords]

_get_verb_recommendation(tier1, tier2, tier3) ==
    IF tier1 >= 5 THEN <<"E","x","c","e","l","l","e","n","t"," ","u","s","e"," ","o","f"," ","p","o","w","e","r","f","u","l"," ","a","c","t","i","o","n"," ","v","e","r","b","s">>
    ELSE IF tier1 >= 3
    THEN <<"G","o","o","d"," ","v","e","r","b"," ","u","s","a","g","e",","," ","c","o","n","s","i","d","e","r"," ","a","d","d","i","n","g"," ","m","o","r","e"," ","T","i","e","r"," ","1"," ","v","e","r","b","s">>
    ELSE <<"F","o","c","u","s"," ","o","n"," ","u","s","i","n","g"," ","m","o","r","e"," ","i","m","p","a","c","t","f","u","l"," ","T","i","e","r"," ","1"," ","a","c","t","i","o","n"," ","v","e","r","b","s">>

_analyze_verb_hierarchy(keywords, text) ==
    LET cv_lower == lower(text)
        tier1_count == Len(FoundIn(keywords.tier1_verbs, cv_lower))
        tier2_count == Len(FoundIn(keywords.tier2_verbs, cv_lower))
        tier3_count == Len(FoundIn(keywords.tier3_verbs, cv_lower))
        total_verbs == tier1_count + tier2_count + tier3_count
        tier_score ==
            IF total_verbs > 0
            THEN Ratio(((tier1_count * 3) + (tier2_count * 2)
                        + (tier3_count * 1)) * 100, total_verbs * 3)
            ELSE RatioOf(0)
    IN  [tier1_count |-> tier1_count,
         tier2_count |-> tier2_count,
         tier3_count |-> tier3_count,
         total_verbs |-> total_verbs,
         tier_distribution_score |-> tier_score,
         recommendation |->
            _get_verb_recommendation(tier1_count, tier2_count, tier3_count)]

\* team of (\d+)|led (\d+)
TeamSizePattern(s) ==
    LET lead(i) == IF MatchAt(s, <<"t","e","a","m"," ","o","f"," ">>, i) THEN 8
                   ELSE IF MatchAt(s, <<"l","e","d"," ">>, i) THEN 4 ELSE 0
    IN  [i \in {k \in 1..Len(s) :
                    lead(k) > 0 /\ CharAt(s, k + lead(k)) \in Digits}
           |-> RunEnd(s, i + lead(i), Digits)]

\* [\d,]
AmountChars == Digits \cup {","}

\* \$[\d,]+|budget
BudgetPattern(s) ==
    [i \in {k \in 1..Len(s) :
                \/ s[k] = "$" /\ CharAt(s, k + 1) \in AmountChars
                \/ MatchAt(s, <<"b","u","d","g","e","t">>, k)}
       |-> IF s[i] = "$" THEN RunEnd(s, i + 1, AmountChars) ELSE i + 6]

_analyze_leadership_indicators(keywords, text) ==
    LET cv_lower == lower(text)
        leadership_terms == FoundIn(keywords.leadership_indicators, cv_lower)
        team_size_mentions == Len(findall(TeamSizePattern(cv_lower), 1))
        budget_mentions == Len(findall(BudgetPattern(cv_lower), 1))
    IN  [leadership_terms |-> leadership_terms,
         leadership_term_count |-> Len(leadership_terms),
         team_size_mentions |-> team_size_mentions,
         budget_mentions |-> budget_mentions,
         leadership_score |->
            Min((Len(leadership_terms) * 15) + (team_size_mentions * 20)
                + (budget_mentions * 10), 100)]

\* impact_patterns: the alternatives of the first group, and whether the
\* figure is \$([\d,]+) rather than (\d+%|\d+)
impact_patterns ==
    << [verbs |-> << <<"r","e","d","u","c","e","d">>, <<"d","e","c","r","e","a","s","e","d">>, <<"c","u","t">> >>,
        amount |-> FALSE],
       [verbs |-> << <<"i","n","c","r","e","a","s","e","d">>, <<"i","m","p","r","o","v","e","d">>, <<"g","r","e","w">>, <<"b","o","o","s","t","e","d">> >>,
        amount |-> FALSE],
       [verbs |-> << <<"s","a","v","e","d">>, <<"g","e","n","e","r","a","t","e","d">> >>, amount |-> TRUE],
       [verbs |-> << <<"a","c","h","i","e","v","e","d">>, <<"d","e","l","i","v","e","r","e","d">> >>, amount |-> FALSE] >>

\* length of the first alternative of verbs that the text holds at i, 0 if
\* none; s_lower is the text in lower case (re.IGNORECASE)
ImpactVerbAt(s_lower, verbs, i) ==
    LET hits == {k \in 1..Len(verbs) : MatchAt(s_lower, verbs[k], i)}
    IN  IF hits = {} THEN 0 ELSE Len(verbs[SetMin(hits)])

\* where .*? stops: the first place from position from, on the same line,
\* at which the figure matches; 0 if the line has none
ImpactFigureAt(s, from, amount) ==
    LET stop == LineEnd(s, from)
        places == {j \in from..(stop - 1) :
                      IF amount
                      THEN s[j] = "$" /\ CharAt(s, j + 1) \in AmountChars
                      ELSE s[j] \in Digits}
    IN  IF places = {} THEN 0 ELSE SetMin(places)

\* (verb|...).*?(\d+%|\d+)  or  (verb|...).*?\$([\d,]+)
ImpactPattern(s, pattern) ==
    LET s_lower == lower(s)
        figure(i) ==
            ImpactFigureAt(s, i + ImpactVerbAt(s_lower, pattern.verbs, i),
                           pattern.amount)
    IN  [i \in {k \in 1..Len(s) :
                    /\ ImpactVerbAt(s_lower, pattern.verbs, k) > 0
                    /\ figure(k) > 0}
           |-> IF pattern.amount
               THEN RunEnd(s, figure(i) + 1, AmountChars)
               ELSE LET e == RunEnd(s, figure(i), Digits)
                    IN  IF CharAt(s, e) = "%" THEN e + 1 ELSE e]

\* ' '.join(match) for the two groups of a match
ImpactStatement(s, pattern, m) ==
    LET verb_end ==
            m.start + ImpactVerbAt(lower(s), pattern.verbs, m.start)
        figure == ImpactFigureAt(s, verb_end, pattern.amount)
    IN  SubSeq(s, m.start, verb_end - 1) \o <<" ">>
        \o SubSeq(s, IF pattern.amount THEN figure + 1 ELSE figure,
                  m.end - 1)

RECURSIVE ImpactStatements(_, _)
\* the statements of the patterns from number k on, pattern by pattern
ImpactStatements(s, k) ==
    IF k > Len(impact_patterns) THEN <<>>
    ELSE LET matches == findall(ImpactPattern(s, impact_patterns[k]), 1)
         IN  [i \in 1..Len(matches) |->
                 ImpactStatement(s, impact_patterns[k], matches[i])]
             \o ImpactStatements(s, k + 1)

HighImpactTerms == << <<"m","i","l","l","i","o","n">>, <<"$">>, <<"%">> >>

_analyze_impact_statements(text) ==
    LET impact_statements == ImpactStatements(text, 1)
        high_impact_count ==
            Len(SelectSeq(impact_statements,
                          LAMBDA stmt : SearchAny(HighImpactTerms, stmt)))
    IN  [impact_statements |->
            SubSeq(impact_statements, 1, Min(Len(impact_statements), 10)),
         total_impact_statements |-> Len(impact_statements),
         high_impact_statements |-> high_impact_count,
         impact_score |->
            Min((Len(impact_statements) * 20) + (high_impact_count * 10),
                100)]

_get_alignment_recommendation(score) ==
    IF RatioLeq(RatioOf(80), score)
    THEN <<"S","t","r","o","n","g"," ","a","l","i","g","n","m","e","n","t"," ","w","i","t","h"," ","t","a","r","g","e","t"," ","r","o","l","e">>
    ELSE IF RatioLeq(RatioOf(60), score)
    THEN <<"G","o","o","d"," ","a","l","i","g","n","m","e","n","t",","," ","c","o","n","s","i","d","e","r"," ","a","d","d","i","n","g"," ","m","o","r","e"," ","r","o","l","e","-","s","p","e","c","i","f","i","c"," ","s","k","i","l","l","s">>
    ELSE <<"N","e","e","d","s"," ","b","e","t","t","e","r"," ","a","l","i","g","n","m","e","n","t"," ","w","i","t","h"," ","t","a","r","g","e","t"," ","r","o","l","e"," ","r","e","q","u","i","r","e","m","e","n","t","s">>

\* role_keywords of _analyze_role_alignment, in the order of the dict
role_keywords ==
    << [role_type |-> <<"d","e","v","o","p","s">>,
        keywords |-> << <<"d","o","c","k","e","r">>, <<"k","u","b","e","r","n","e","t","e","s">>, <<"j","e","n","k","i","n","s">>,
                        <<"t","e","r","r","a","f","o","r","m">>, <<"a","n","s","i","b","l","e">>, <<"a","w","s">>, <<"c","i","/","c","d">> >>],
       [role_type |-> <<"d","e","v","e","l","o","p","e","r">>,
        keywords |-> << <<"p","y","t","h","o","n">>, <<"j","a","v","a">>, <<"j","a","v","a","s","c","r","i","p","t">>, <<"r","e","a","c","t">>,
                        <<"n","o","d","e",".","j","s">>, <<"a","p","i">>, <<"d","a","t","a","b","a","s","e">> >>],
       [role_type |-> <<"d","a","t","a">>,
        keywords |-> << <<"p","y","t","h","o","n">>, <<"s","q","l">>, <<"m","a","c","h","i","n","e"," ","l","e","a","r","n","i","n","g">>,
                        <<"p","a","n","d","a","s">>, <<"n","u","m","p","y">>, <<"v","i","s","u","a","l","i","z","a","t","i","o","n">> >>],
       [role_type |-> <<"m","a","n","a","g","e","r">>,
        keywords |-> << <<"l","e","a","d","e","r","s","h","i","p">>, <<"t","e","a","m">>, <<"b","u","d","g","e","t">>, <<"s","t","r","a","t","e","g","y">>,
                        <<"s","t","a","k","e","h","o","l","d","e","r">>, <<"p","r","o","j","e","c","t">> >>],
       [role_type |-> <<"a","r","c","h","i","t","e","c","t">>,
        keywords |-> << <<"d","e","s","i","g","n">>, <<"a","r","c","h","i","t","e","c","t","u","r","e">>, <<"s","y","s","t","e","m">>,
                        <<"s","c","a","l","a","b","i","l","i","t","y">>, <<"m","i","c","r","o","s","e","r","v","i","c","e","s">> >> ] >>

RECURSIVE RelevantKeywords(_, _)
\* relevant_keywords after the loop over role_keywords.items() from entry k
RelevantKeywords(target_lower, k) ==
    IF k > Len(role_keywords) THEN <<>>
    ELSE (IF Contains(target_lower, role_keywords[k].role_type)
          THEN role_keywords[k].keywords ELSE <<>>)
         \o RelevantKeywords(target_lower, k + 1)

NeutralAlignment == 50

_analyze_role_alignment(keywords, text, target_role) ==
    IF target_role = <<>>
    THEN [score |-> NeutralAlignment,
          message |-> <<"N","o"," ","t","a","r","g","e","t"," ","r","o","l","e"," ","s","p","e","c","i","f","i","e","d">>]
    ELSE
    LET target_lower == lower(target_role)
        cv_lower == lower(text)
        role_specific == RelevantKeywords(target_lower, 1)
        relevant_keywords ==
            IF role_specific = <<>>
            THEN keywords.technical_skills \o keywords.soft_skills
            ELSE role_specific
        matched_keywords == FoundIn(relevant_keywords, cv_lower)
        alignment_score ==
            Ratio(Len(matched_keywords) * 100,
                  Max(Len(relevant_keywords), 1))
    IN  [target_role |-> target_role,
         relevant_keywords |->
            SubSeq(relevant_keywords, 1, Min(Len(relevant_keywords), 20)),
         matched_keywords |->
            SubSeq(matched_keywords, 1, Min(Len(matched_keywords), 15)),
         alignment_score |-> alignment_score,
         recommendation |-> _get_alignment_recommendation(alignment_score)]

RECURSIVE SumWords(_)
\* sum(len(bullet.split()) for bullet in bullets)
SumWords(bullets) ==
    IF bullets = <<>> THEN 0
    ELSE WordCount(bullets[1]) + SumWords(Tail(bullets))

DetailedWords == 12
WeakWords == 4

_analyze_content_depth(text) ==
    LET lines == split(text, NL)
        bullet_lines == SelectSeq(lines, IsBullet)
        detailed_bullets ==
            Len(SelectSeq(bullet_lines,
                          LAMBDA b : WordCount(b) >= DetailedWords))
        weak_bullets ==
            Len(SelectSeq(bullet_lines, LAMBDA b : WordCount(b) <= WeakWords))
        avg_bullet_length ==
            Ratio(SumWords(bullet_lines), Max(Len(bullet_lines), 1))
        depth_score ==
            RatioMin(RatioAdd(RatioOf((detailed_bullets * 15)
                                      - (weak_bullets * 5)),
                              Weighted(avg_bullet_length, 2, 1)),
                     RatioOf(100))
    IN  [total_bullets |-> Len(bullet_lines),
         detailed_bullets |-> detailed_bullets,
         weak_bullets |-> weak_bullets,
         avg_bullet_length |-> avg_bullet_length,
         depth_score |-> RatioMax(depth_score, RatioOf(0))]

\* \d{4}|\d{1,2}/\d{4}|\w+ \d{4}
DatePattern(s) ==
    LET word_end(i) == RunEnd(s, i, WordChars)
        end(i) ==
            IF DigitsAt(s, i, 4) THEN i + 4
            ELSE IF DigitsAt(s, i, 2) /\ CharAt(s, i + 2) = "/"
                    /\ DigitsAt(s, i + 3, 4) THEN i + 7
            ELSE IF DigitsAt(s, i, 1) /\ CharAt(s, i + 1) = "/"
                    /\ DigitsAt(s, i + 2, 4) THEN i + 6
            ELSE IF s[i] \in WordChars /\ CharAt(s, word_end(i)) = " "
                    /\ DigitsAt(s, word_end(i) + 1, 4) THEN word_end(i) + 5
            ELSE 0
    IN  [i \in {k \in 1..Len(s) : end(k) > 0} |-> end(i)]

unprofessional_terms ==
    << <<"a","w","e","s","o","m","e">>, <<"c","o","o","l">>, <<"s","t","u","f","f">>, <<"t","h","i","n","g","s">>, <<"g","u","y","s">> >>

DigitChars == <<"0", "1", "2", "3", "4", "5", "6", "7", "8", "9">>

RECURSIVE str(_)
\* str(n) of an int n >= 0
str(n) ==
    IF n < 10 THEN <<DigitChars[n + 1]>>
    ELSE str(n \div 10) \o <<DigitChars[(n % 10) + 1]>>

_analyze_presentation(text) ==
    LET date_matches == findall(DatePattern(text), 1)
        date_formats ==
            Cardinality({MatchText(text, date_matches[i]) :
                            i \in 1..Len(date_matches)})
        unprofessional_count ==
            Len(FoundIn(unprofessional_terms, lower(text)))
        bullet_matches == findall(BulletPattern(text, FALSE), 1)
        bullet_formats ==
            Cardinality({text[bullet_matches[i].end - 1] :
                            i \in 1..Len(bullet_matches)})
        presentation_score ==
            100 - (IF date_formats > 2 THEN 15 ELSE 0)
                - (IF unprofessional_count > 0
                   THEN unprofessional_count * 10 ELSE 0)
                - (IF bullet_formats > 1 THEN 10 ELSE 0)
    IN  [presentation_score |-> Max(presentation_score, 0),
         issues |->
            (IF date_formats > 2
             THEN << <<"I","n","c","o","n","s","i","s","t","e","n","t"," ","d","a","t","e"," ","f","o","r","m","a","t","t","i","n","g">> >> ELSE <<>>)
            \o (IF unprofessional_count > 0
                THEN << str(unprofessional_count)
                        \o <<" ","u","n","p","r","o","f","e","s","s","i","o","n","a","l"," ","t","e","r","m","s"," ","f","o","u","n","d">> >>
                ELSE <<>>)
            \o (IF bullet_formats > 1
                THEN << <<"I","n","c","o","n","s","i","s","t","e","n","t"," ","b","u","l","l","e","t"," ","p","o","i","n","t"," ","f","o","r","m","a","t","t","i","n","g">> >>
                ELSE <<>>),
         date_format_consistency |-> date_formats <= 2,
         professional_language |-> unprofessional_count = 0,
         bullet_consistency |-> bullet_formats <= 1]

(***************************************************************************)
(* The industry standards.  IndustryStandards.get_all_standards belongs to *)
(* src/ats_app/industry_standards.py, which the repository imports; the    *)
(* names and the order of the seven standards follow the table of section  *)
(* 4.2 of the specification.  name is the key of the standard, text the    *)
(* same key as characters.                                                 *)
(***************************************************************************)
get_all_standards ==
    << [name |-> "action_verb_hierarchy",
        text |-> <<"a","c","t","i","o","n","_","v","e","r","b","_","h","i","e","r","a","r","c","h","y">>],
       [name |-> "quantification_standard",
        text |-> <<"q","u","a","n","t","i","f","i","c","a","t","i","o","n","_","s","t","a","n","d","a","r","d">>],
       [name |-> "ats_formatting",
        text |-> <<"a","t","s","_","f","o","r","m","a","t","t","i","n","g">>],
       [name |-> "keyword_optimization",
        text |-> <<"k","e","y","w","o","r","d","_","o","p","t","i","m","i","z","a","t","i","o","n">>],
       [name |-> "professional_presentation",
        text |-> <<"p","r","o","f","e","s","s","i","o","n","a","l","_","p","r","e","s","e","n","t","a","t","i","o","n">>],
       [name |-> "impact_demonstration",
        text |-> <<"i","m","p","a","c","t","_","d","e","m","o","n","s","t","r","a","t","i","o","n">>],
       [name |-> "role_alignment",
        text |-> <<"r","o","l","e","_","a","l","i","g","n","m","e","n","t">>] >>

\* the (compliance_score, findings) tuple of a _check_ method
Compliance(score, findings) == [score |-> score, findings |-> findings]

\* thresholds swapped: 75 from five tier-1 verbs on, 90 for three or four
_check_action_verb_compliance_swapped(keywords, text) ==
    LET cv_lower == lower(text)
        tier1_count == Len(FoundIn(keywords.tier1_verbs, cv_lower))
    IN  IF tier1_count >= 5
        THEN Compliance(75, << <<"E","x","c","e","l","l","e","n","t"," ","u","s","e"," ","o","f"," ","T","i","e","r"," ","1"," ","a","c","t","i","o","n"," ","v","e","r","b","s">> >>)
        ELSE IF tier1_count >= 3
        THEN Compliance(90,
                << <<"G","o","o","d"," ","u","s","e"," ","o","f"," ","a","c","t","i","o","n"," ","v","e","r","b","s",","," ","a","d","d"," ","m","o","r","e"," ","T","i","e","r"," ","1"," ","v","e","r","b","s">> >>)
        ELSE Compliance(50,
                << <<"N","e","e","d"," ","m","o","r","e"," ","p","o","w","e","r","f","u","l"," ","T","i","e","r"," ","1"," ","a","c","t","i","o","n"," ","v","e","r","b","s">> >>)

_check_action_verb_compliance(keywords, text) ==
    LET cv_lower == lower(text)
        tier1_count == Len(FoundIn(keywords.tier1_verbs, cv_lower))
    IN  IF tier1_count >= 5
        THEN Compliance(90, << <<"E","x","c","e","l","l","e","n","t"," ","u","s","e"," ","o","f"," ","T","i","e","r"," ","1"," ","a","c","t","i","o","n"," ","v","e","r","b","s">> >>)
        ELSE IF tier1_count >= 3
        THEN Compliance(75,
                << <<"G","o","o","d"," ","u","s","e"," ","o","f"," ","a","c","t","i","o","n"," ","v","e","r","b","s",","," ","a","d","d"," ","m","o","r","e"," ","T","i","e","r"," ","1"," ","v","e","r","b","s">> >>)
        ELSE Compliance(50,
                << <<"N","e","e","d"," ","m","o","r","e"," ","p","o","w","e","r","f","u","l"," ","T","i","e","r"," ","1"," ","a","c","t","i","o","n"," ","v","e","r","b","s">> >>)

\* round(x) to the nearest integer, ties to the even one, for x >= 0
RoundHalfEven(x) ==
    LET q == x.num \div x.den
        r == x.num % x.den
    IN  IF 2 * r < x.den THEN q
        ELSE IF 2 * r > x.den THEN q + 1
        ELSE IF q % 2 = 0 THEN q ELSE q + 1

\* f"{x:.1f}" for x >= 0
FormatOneDecimal(x) ==
    LET tenths == RoundHalfEven(Weighted(x, 10, 1))
    IN  str(tenths \div 10) \o <<".">> \o str(tenths % 10)

ExcellentRate == 80
GoodRate == 60

\* the rate is kept as a fraction of 1 and compared with the percentages
_check_quantification_compliance_fraction(text) ==
    LET bullet_lines == BulletLines(text)
        quantified_bullets ==
            SelectSeq(bullet_lines,
                      LAMBDA bullet : DOMAIN NumberPattern(bullet) # {})
        rate == Ratio(Len(quantified_bullets), Max(Len(bullet_lines), 1))
    IN  IF bullet_lines = <<>>
        THEN Compliance(0, << <<"N","o"," ","b","u","l","l","e","t"," ","p","o","i","n","t","s"," ","f","o","u","n","d">> >>)
        ELSE IF RatioLeq(RatioOf(ExcellentRate), rate)
        THEN Compliance(95, << <<"E","x","c","e","l","l","e","n","t"," ","q","u","a","n","t","i","f","i","c","a","t","i","o","n"," ","r","a","t","e">> >>)
        ELSE IF RatioLeq(RatioOf(GoodRate), rate)
        THEN Compliance(80,
                << <<"G","o","o","d"," ","q","u","a","n","t","i","f","i","c","a","t","i","o","n",","," ","a","i","m"," ","f","o","r"," ","8","0","%","+"," ","o","f"," ","b","u","l","l","e","t","s">> >>)
        ELSE Compliance(int(rate),
                << <<"O","n","l","y"," ">> \o FormatOneDecimal(rate)
                   \o <<"%"," ","o","f"," ","b","u","l","l","e","t","s"," ","q","u","a","n","t","i","f","i","e","d">> >>)

_check_quantification_compliance(text) ==
    LET bullet_lines == BulletLines(text)
        quantified_bullets ==
            SelectSeq(bullet_lines,
                      LAMBDA bullet : DOMAIN NumberPattern(bullet) # {})
        rate == Ratio(Len(quantified_bullets) * 100,
                      Max(Len(bullet_lines), 1))
    IN  IF bullet_lines = <<>>
        THEN Compliance(0, << <<"N","o"," ","b","u","l","l","e","t"," ","p","o","i","n","t","s"," ","f","o","u","n","d">> >>)
        ELSE IF RatioLeq(RatioOf(ExcellentRate), rate)
        THEN Compliance(95, << <<"E","x","c","e","l","l","e","n","t"," ","q","u","a","n","t","i","f","i","c","a","t","i","o","n"," ","r","a","t","e">> >>)
        ELSE IF RatioLeq(RatioOf(GoodRate), rate)
        THEN Compliance(80,
                << <<"G","o","o","d"," ","q","u","a","n","t","i","f","i","c","a","t","i","o","n",","," ","a","i","m"," ","f","o","r"," ","8","0","%","+"," ","o","f"," ","b","u","l","l","e","t","s">> >>)
        ELSE Compliance(int(rate),
                << <<"O","n","l","y"," ">> \o FormatOneDecimal(rate)
                   \o <<"%"," ","o","f"," ","b","u","l","l","e","t","s"," ","q","u","a","n","t","i","f","i","e","d">> >>)

_check_ats_formatting_compliance(text) ==
    LET has_tab == Contains(text, <<"\t">>)
        has_email == EmailFound(text)
        issues ==
            (IF has_tab THEN << <<"R","e","m","o","v","e"," ","t","a","b"," ","c","h","a","r","a","c","t","e","r","s">> >> ELSE <<>>)
            \o (IF has_email THEN <<>>
                ELSE << <<"A","d","d"," ","p","r","o","p","e","r"," ","e","m","a","i","l"," ","f","o","r","m","a","t">> >>)
        score == 100 - (IF has_tab THEN 20 ELSE 0)
                     - (IF has_email THEN 0 ELSE 30)
    IN  Compliance(Max(score, 0),
                   IF issues # <<>> THEN issues
                   ELSE << <<"A","T","S"," ","f","o","r","m","a","t","t","i","n","g"," ","c","o","m","p","l","i","a","n","t">> >>)

_check_keyword_compliance(keywords, text) ==
    LET cv_lower == lower(text)
        tech_count == Len(FoundIn(keywords.technical_skills, cv_lower))
    IN  IF tech_count >= 12
        THEN Compliance(90, << <<"S","t","r","o","n","g"," ","k","e","y","w","o","r","d"," ","p","r","e","s","e","n","c","e">> >>)
        ELSE IF tech_count >= 8
        THEN Compliance(75, << <<"G","o","o","d"," ","k","e","y","w","o","r","d"," ","c","o","v","e","r","a","g","e">> >>)
        ELSE Compliance(50,
                << <<"N","e","e","d"," ","m","o","r","e"," ","r","e","l","e","v","a","n","t"," ","t","e","c","h","n","i","c","a","l"," ","k","e","y","w","o","r","d","s">> >>)

_check_presentation_compliance(text) ==
    Compliance(_analyze_presentation(text).presentation_score, <<>>)

_check_impact_compliance(text) ==
    Compliance(_analyze_impact_statements(text).impact_score, <<>>)

GenericAlignment == 70

_check_alignment_compliance(text) ==
    Compliance(GenericAlignment,
               << <<"R","o","l","e"," ","a","l","i","g","n","m","e","n","t"," ","r","e","q","u","i","r","e","s"," ","s","p","e","c","i","f","i","c"," ","t","a","r","g","e","t"," ","r","o","l","e">> >>)

\* the branch of _analyze_industry_standards for one standard
CheckStandard(keywords, text, standard_name) ==
    CASE standard_name = "action_verb_hierarchy" ->
            _check_action_verb_compliance(keywords, text)
      [] standard_name = "quantification_standard" ->
            _check_quantification_compliance(text)
      [] standard_name = "ats_formatting" ->
            _check_ats_formatting_compliance(text)
      [] standard_name = "keyword_optimization" ->
            _check_keyword_compliance(keywords, text)
      [] standard_name = "professional_presentation" ->
            _check_presentation_compliance(text)
      [] standard_name = "impact_demonstration" ->
            _check_impact_compliance(text)
      [] standard_name = "role_alignment" ->
            _check_alignment_compliance(text)
      [] OTHER -> Compliance(0, <<>>)

CompliantScore == 80

\* _analyze_industry_standards counting a standard as compliant only above
\* CompliantScore
_analyze_industry_standards_above(keywords, text) ==
    LET names == {get_all_standards[i].name :
                     i \in 1..Len(get_all_standards)}
    IN  With([n \in names |-> CheckStandard(keywords, text, n)],
             LAMBDA results :
            [standards |-> results,
             overall_compliance_score |->
                Weighted(RatioSum([i \in 1..Len(get_all_standards) |->
                            RatioOf(results[get_all_standards[i].name].score)]),
                         1, Cardinality(names)),
             compliant_standards |->
                Cardinality({n \in names :
                                results[n].score > CompliantScore}),
             total_standards |-> Cardinality(names)])

\* 'standard_details', the catalogue entry of the standard, is left out: no
\* code of the scanners reads it
_analyze_industry_standards(keywords, text) ==
    LET names == {get_all_standards[i].name :
                     i \in 1..Len(get_all_standards)}
    IN  With([n \in names |-> CheckStandard(keywords, text, n)],
             LAMBDA results :
            [standards |-> results,
             overall_compliance_score |->
                Weighted(RatioSum([i \in 1..Len(get_all_standards) |->
                            RatioOf(results[get_all_standards[i].name].score)]),
                         1, Cardinality(names)),
             compliant_standards |->
                Cardinality({n \in names :
                                results[n].score >= CompliantScore}),
             total_standards |-> Cardinality(names)])

\* the base term enters the sum without its factor of 0.6
_calculate_enhanced_score_full_base(base_sections, enhanced_analysis) ==
    LET base_score ==
            Weighted(RatioSum(<<
                Weighted(RatioOf(base_sections.keywords.power_verbs.score),
                         15, 100),
                Weighted(RatioOf(base_sections.keywords.technical_skills.score),
                         20, 100),
                Weighted(base_sections.formatting.overall_formatting_score,
                         15, 100),
                Weighted(RatioOf(base_sections.ats_compatibility.score),
                         10, 100) >>), 10, 10)
        enhanced_score ==
            Weighted(RatioSum(<<
                Weighted(enhanced_analysis.industry_standards
                             .overall_compliance_score, 15, 100),
                Weighted(enhanced_analysis.verb_hierarchy
                             .tier_distribution_score, 8, 100),
                Weighted(RatioOf(enhanced_analysis.leadership_analysis
                             .leadership_score), 5, 100),
                Weighted(RatioOf(enhanced_analysis.impact_analysis
                             .impact_score), 7, 100),
                Weighted(enhanced_analysis.content_depth.depth_score,
                         3, 100),
                Weighted(RatioOf(enhanced_analysis.professional_presentation
                             .presentation_score), 2, 100) >>), 4, 10)
    IN  int(RatioAdd(base_score, enhanced_score))

_calculate_enhanced_score(base_sections, enhanced_analysis) ==
    LET base_score ==
            Weighted(RatioSum(<<
                Weighted(RatioOf(base_sections.keywords.power_verbs.score),
                         15, 100),
                Weighted(RatioOf(base_sections.keywords.technical_skills.score),
                         20, 100),
                Weighted(base_sections.formatting.overall_formatting_score,
                         15, 100),
                Weighted(RatioOf(base_sections.ats_compatibility.score),
                         10, 100) >>), 6, 10)
        enhanced_score ==
            Weighted(RatioSum(<<
                Weighted(enhanced_analysis.industry_standards
                             .overall_compliance_score, 15, 100),
                Weighted(enhanced_analysis.verb_hierarchy
                             .tier_distribution_score, 8, 100),
                Weighted(RatioOf(enhanced_analysis.leadership_analysis
                             .leadership_score), 5, 100),
                Weighted(RatioOf(enhanced_analysis.impact_analysis
                             .impact_score), 7, 100),
                Weighted(enhanced_analysis.content_depth.depth_score,
                         3, 100),
                Weighted(RatioOf(enhanced_analysis.professional_presentation
                             .presentation_score), 2, 100) >>), 4, 10)
    IN  int(RatioAdd(base_score, enhanced_score))

MaxEnhancedRecommendations == 12

RECURSIVE StandardRecommendations(_, _)
\* the recommendations of the loop over standards.items() from entry k
StandardRecommendations(standards, k) ==
    IF k > Len(get_all_standards) THEN <<>>
    ELSE LET data == standards[get_all_standards[k].name]
         IN  (IF data.score < 70
              THEN << <<"I","m","p","r","o","v","e"," ">>
                      \o replace(get_all_standards[k].text, <<"_">>, <<" ">>)
                      \o <<":"," ">>
                      \o (IF data.findings # <<>> THEN data.findings[1]
                          ELSE <<"R","e","v","i","e","w"," ","s","t","a","n","d","a","r","d"," ","r","e","q","u","i","r","e","m","e","n","t","s">>) >>
              ELSE <<>>)
             \o StandardRecommendations(standards, k + 1)

_generate_enhanced_recommendations(base_sections, enhanced_analysis) ==
    LET presentation == enhanced_analysis.professional_presentation
        recommendations ==
            StandardRecommendations(
                enhanced_analysis.industry_standards.standards, 1)
            \o (IF enhanced_analysis.verb_hierarchy.tier1_count < 3
                THEN << <<"U","s","e"," ","m","o","r","e"," ","T","i","e","r"," ","1"," ","a","c","t","i","o","n"," ","v","e","r","b","s"," ","(","a","r","c","h","i","t","e","c","t","e","d",","," ","o","r","c","h","e","s","t","r","a","t","e","d",","," ","s","p","e","a","r","h","e","a","d","e","d",")">> >>
                ELSE <<>>)
            \o (IF enhanced_analysis.leadership_analysis.leadership_score < 50
                THEN << <<"A","d","d"," ","m","o","r","e"," ","l","e","a","d","e","r","s","h","i","p"," ","i","n","d","i","c","a","t","o","r","s"," ","a","n","d"," ","t","e","a","m"," ","m","a","n","a","g","e","m","e","n","t"," ","e","x","a","m","p","l","e","s">> >>
                ELSE <<>>)
            \o (IF enhanced_analysis.impact_analysis.impact_score < 60
                THEN << <<"I","n","c","l","u","d","e"," ","m","o","r","e"," ","q","u","a","n","t","i","f","i","e","d"," ","i","m","p","a","c","t"," ","s","t","a","t","e","m","e","n","t","s"," ","w","i","t","h"," ","s","p","e","c","i","f","i","c"," ","r","e","s","u","l","t","s">> >>
                ELSE <<>>)
            \o (IF enhanced_analysis.content_depth.weak_bullets > 3
                THEN << <<"E","x","p","a","n","d"," ","b","r","i","e","f"," ","b","u","l","l","e","t"," ","p","o","i","n","t","s"," ","w","i","t","h"," ","m","o","r","e"," ","d","e","t","a","i","l","e","d"," ","d","e","s","c","r","i","p","t","i","o","n","s">> >>
                ELSE <<>>)
            \o [i \in 1..Len(presentation.issues) |->
                   <<"F","i","x"," ","p","r","e","s","e","n","t","a","t","i","o","n"," ","i","s","s","u","e",":"," ">> \o presentation.issues[i]]
    IN  SubSeq(recommendations, 1,
               Min(Len(recommendations), MaxEnhancedRecommendations))

\* results['enhanced_analysis'] of enhanced_scan
EnhancedAnalysis(keywords, text, target_role) ==
    [industry_standards |-> _analyze_industry_standards(keywords, text),
     verb_hierarchy |-> _analyze_verb_hierarchy(keywords, text),
     leadership_analysis |-> _analyze_leadership_indicators(keywords, text),
     impact_analysis |-> _analyze_impact_statements(text),
     role_alignment |-> _analyze_role_alignment(keywords, text, target_role),
     content_depth |-> _analyze_content_depth(text),
     professional_presentation |-> _analyze_presentation(text)]

\* the file is read once by scan_cv and once more by enhanced_scan; it does
\* not change in between
enhanced_scan(self, cv_path, job_description, target_role) ==
    With(scan_cv(self.ats_keywords, cv_path, job_description),
         LAMBDA results :
    With(_extract_text(cv_path), LAMBDA extracted :
        IF "error" \in DOMAIN results THEN results
        ELSE IF extracted.raised THEN [error |-> extracted.error]
        ELSE With(EnhancedAnalysis(self.enhanced_keywords, extracted.value,
                                   target_role),
                  LAMBDA enhanced_analysis :
                [cv_path |-> results.cv_path,
                 overall_score |-> results.overall_score,
                 sections |-> results.sections,
                 recommendations |-> results.recommendations,
                 enhanced_analysis |-> enhanced_analysis,
                 enhanced_score |->
                    _calculate_enhanced_score(results.sections,
                                              enhanced_analysis),
                 enhanced_recommendations |->
                    _generate_enhanced_recommendations(results.sections,
                                                       enhanced_analysis)])))

(***************************************************************************)
(* Scans requested of one EnhancedATSScanner instance.  A request names    *)
(* the file, the job description and the target role; the caller asks for  *)
(* the requests of pending in order, with scan_cv or with enhanced_scan.   *)
(***************************************************************************)
ScanRequest(cv_path, job_description, target_role) ==
    [cv_path |-> cv_path, job_description |-> job_description,
     target_role |-> target_role]

\* the scanner keeps the technical terms of the job description: they are
\* appended to its list of technical skills
ScannerAfter_extend(self, request) ==
    LET jd_lower == lower(request.job_description)
        technical_terms ==
            SelectSeq(JobTechnicalTerms, LAMBDA t : IsJobTerm(jd_lower, t))
    IN  [self EXCEPT !.ats_keywords.technical_skills = @ \o technical_terms]

\* the instance state after a scan: no method of the scanners assigns to
\* self or changes one of its lists
ScannerAfter(self, request) == self

\* one call scanner.scan_cv(cv_path, job_description)
ScanCV ==
    /\ pending # <<>>
    /\ LET request == Head(pending)
       IN  /\ scans' = Append(scans,
                  [request |-> request, method |-> "scan_cv",
                   results |-> scan_cv(scanner.ats_keywords, request.cv_path,
                                       request.job_description)])
           /\ scanner' = ScannerAfter(scanner, request)
    /\ pending' = Tail(pending)
    /\ UNCHANGED <<request_vars, validate_vars, requests, config_vars, call_vars>>

\* one call scanner.enhanced_scan(cv_path, job_description, target_role)
EnhancedScan ==
    /\ pending # <<>>
    /\ LET request == Head(pending)
       IN  /\ scans' = Append(scans,
                  [request |-> request, method |-> "enhanced_scan",
                   results |-> enhanced_scan(scanner, request.cv_path,
                                             request.job_description,
                                             request.target_role)])
           /\ scanner' = ScannerAfter(scanner, request)
    /\ pending' = Tail(pending)
    /\ UNCHANGED <<request_vars, validate_vars, requests, config_vars, call_vars>>

(***************************************************************************)
(* Bounds of the scans.                                                    *)
(***************************************************************************)
MaxBullets == 10        \* bullet lines of a scanned text
MaxTier1Verbs == 6      \* distinct tier-1 verbs of a scanned text
MaxScans == 3           \* scans requested of one scanner instance

(***************************************************************************)
(* Scanned texts: q bullets with a figure followed by p bullets without,   *)
(* for every q + p <= MaxBullets; the first v tier-1 verbs, v up to        *)
(* MaxTier1Verbs, under each heading; and a CV that holds every keyword of *)
(* the scanner, every section, an e-mail address, a phone number and       *)
(* twenty bullets with a figure.                                           *)
(***************************************************************************)
Copies(line, n) == [i \in 1..n |-> line]

QuantifiedBullet == <<"-"," ","c","u","t"," ","c","o","s","t","s"," ","5","%">>

PlainBullet == <<"*"," ","h","e","l","p","e","d">>

BulletText(q, p) ==
    join(NL, Copies(QuantifiedBullet, q) \o Copies(PlainBullet, p))

BulletTexts ==
    UNION { {BulletText(q, p) : p \in 0..(MaxBullets - q)} :
            q \in 0..MaxBullets }

VerbText(v) == join(" ", SubSeq(enhanced_keywords.tier1_verbs, 1, v))

ScanHeadings ==
    { <<>>,
      <<"S","u","m","m","a","r","y",":"," ","a","@","b",".","c","o"," ","5","5","5","-","1","2","3","-","4","5","6","7","\n">>,
      <<"-"," ","L","e","d"," ","t","e","a","m"," ","o","f"," ","5",","," ","s","a","v","e","d"," ","$","1",",","0","0","0"," ","b","u","d","g","e","t"," ","i","n"," ","2","0","2","0","\n">> }

VerbTexts == {h \o VerbText(v) : h \in ScanHeadings, v \in 0..MaxTier1Verbs}

RichCV ==
    join(" ", ats_keywords.power_verbs \o ats_keywords.technical_skills
              \o ats_keywords.soft_skills)
    \o <<"\n","S","u","m","m","a","r","y"," ","e","x","p","e","r","i","e","n","c","e"," ","e","d","u","c","a","t","i","o","n"," ","s","k","i","l","l","s"," ","a","@","b",".","c","o"," ","5","5","5","-","1","2","3","-","4","5","6","7","\n">>
    \o join(NL, Copies(<<"-"," ","5">>, 20))

JobDescriptions == { <<>>, <<"P","y","t","h","o","n"," ","a","n","d"," ","A","W","S">> }

TargetRoles == { <<>>, <<"D","e","v","O","p","s"," ","e","n","g","i","n","e","e","r">>, <<"c","h","e","f">> }

TextFile(text) == CVFile(<<".","t","x","t">>, "ok", text)

FileSuffixes == { <<".","t","x","t">>, <<".","p","d","f">>, <<".","P","D","F">>, <<".","d","o","c","x">> }

FileStatuses == {"ok", "missing", "undecodable"}

ScanInputs ==
    {ScanRequest(TextFile(t), <<>>, <<>>) : t \in BulletTexts}
    \cup {ScanRequest(TextFile(t), jd, role) :
            t \in VerbTexts \cup {RichCV},
            jd \in JobDescriptions, role \in TargetRoles}
    \cup {ScanRequest(CVFile(suffix, status, BulletText(1, 1)), <<>>, <<>>) :
            suffix \in FileSuffixes, status \in FileStatuses}

InitScan ==
    /\ scanner = NewScanner
    /\ pending \in {<<request>> : request \in ScanInputs}
    /\ scans = <<>>
    /\ NoRequest
    /\ NoValidation
    /\ NoConfig
    /\ NoCalls

NextScan ==
    \/ ScanCV
    \/ EnhancedScan

SpecScan == InitScan /\ [][NextScan]_vars

(***************************************************************************)
(* MaxScans scans in a row of one scanner instance, each of any of a few   *)
(* requests.                                                               *)
(***************************************************************************)
RescanInputs ==
    {ScanRequest(TextFile(t), c[1], c[2]) :
        t \in { <<"-"," ","p","y","t","h","o","n"," ","5">>, <<"M","a","n","a","g","e","d"," ","A","W","S"," ","t","e","a","m","w","o","r","k">> },
        c \in { << <<>>, <<>> >>,
                << <<"P","y","t","h","o","n"," ","a","n","d"," ","A","W","S">>, <<>> >>,
                << <<>>, <<"D","e","v","O","p","s"," ","e","n","g","i","n","e","e","r">> >> }}
    \cup {ScanRequest(TextFile(t), <<>>, <<>>) :
            t \in { <<"a","w","s">>, <<"m","e","n","t","o","r","i","n","g">> }}

InitRescan ==
    /\ scanner = NewScanner
    /\ pending \in [1..MaxScans -> RescanInputs]
    /\ scans = <<>>
    /\ NoRequest
    /\ NoValidation
    /\ NoConfig
    /\ NoCalls

SpecRescan == InitRescan /\ [][EnhancedScan]_vars

(***************************************************************************)
(* Properties of the scans.                                                *)
(***************************************************************************)
\* the scans of the log that returned a result dict and not the error dict
Scanned == {i \in DOMAIN scans : "error" \notin DOMAIN scans[i].results}

\* the scans of the log made by enhanced_scan that returned a result dict
EnhancedScanned == {i \in Scanned : scans[i].method = "enhanced_scan"}

\* C11: every scan returns an overall_score that is an integer from 0 to 100,
\* and every enhanced scan also an enhanced_score that is an integer from 0
\* to 100
C11_ScoresInRange ==
    /\ Scanned = DOMAIN scans
    /\ \A i \in Scanned : scans[i].results.overall_score \in 0..100
    /\ \A i \in EnhancedScanned : scans[i].results.enhanced_score \in 0..100

\* an enhanced scan of the CV that holds every keyword scored 90 or more
C11_Witness ==
    \E i \in EnhancedScanned :
        /\ scans[i].request.cv_path.text = RichCV
        /\ scans[i].results.overall_score >= 90
        /\ scans[i].results.enhanced_score > 0

IsQuantificationRate(analysis) ==
    /\ analysis.total_bullets = 0 => analysis.quantification_rate.num = 0
    /\ analysis.quantification_rate.num * analysis.total_bullets
          = 100 * analysis.quantified_bullets
               * analysis.quantification_rate.den
    /\ RatioLeq(RatioOf(0), analysis.quantification_rate)
    /\ RatioLeq(analysis.quantification_rate, RatioOf(100))

C13_QuantificationRate ==
    \A i \in Scanned :
        /\ IsQuantificationRate(scans[i].results.sections.quantification)
        /\ IsQuantificationRate(
              _analyze_current_cv(_extract_text(scans[i].request.cv_path).value))

\* a scan of three bullets, one of them with a figure: the rate is 100/3
C13_Witness ==
    \E i \in Scanned :
        /\ scans[i].results.sections.quantification.total_bullets = 3
        /\ scans[i].results.sections.quantification.quantified_bullets = 1
        /\ scans[i].results.sections.quantification.quantification_rate
              = Ratio(100, 3)

\* C14: a text of exactly 10 bullets, 8 of them with a numeral, has the
\* quantification rate 80 and a quantification_standard score of at least 80
C14_EightOfTen ==
    \A i \in EnhancedScanned :
        LET quantification == scans[i].results.sections.quantification
            standards ==
                scans[i].results.enhanced_analysis.industry_standards
        IN  /\ quantification.total_bullets = 10
            /\ quantification.quantified_bullets = 8
            => /\ quantification.quantification_rate = RatioOf(80)
               /\ standards.standards["quantification_standard"].score >= 80

\* the enhanced scan of 8 bullets with a figure and 2 without
C14_Witness ==
    \E i \in EnhancedScanned :
        /\ scans[i].request.cv_path.text = BulletText(8, 2)
        /\ scans[i].results.sections.quantification.total_bullets = 10
        /\ scans[i].results.sections.quantification.quantified_bullets = 8
        /\ scans[i].results.enhanced_analysis.industry_standards
              .standards["quantification_standard"].score = 95

\* C15: the action_verb_hierarchy score is 50 below 3 distinct tier-1 verbs,
\* 75 for 3 or 4 and 90 from 5 on, so it never falls as the count grows
C15_VerbScoreSteps ==
    \A i \in EnhancedScanned :
        LET tier1_count ==
                scans[i].results.enhanced_analysis.verb_hierarchy.tier1_count
            score ==
                scans[i].results.enhanced_analysis.industry_standards
                    .standards["action_verb_hierarchy"].score
        IN  score = IF tier1_count < 3 THEN 50
                    ELSE IF tier1_count < 5 THEN 75 ELSE 90

\* an enhanced scan of a text with exactly five tier-1 verbs scored 90
C15_Witness ==
    \E i \in EnhancedScanned :
        /\ scans[i].results.enhanced_analysis.verb_hierarchy.tier1_count = 5
        /\ scans[i].results.enhanced_analysis.industry_standards
              .standards["action_verb_hierarchy"].score = 90

\* the file of a request cannot be read, or is a PDF
Unreadable(cv_path) ==
    \/ cv_path.status # "ok"
    \/ lower(cv_path.suffix) = <<".","p","d","f">>

\* every count and rate of the sections of a scan is zero
AllZero(sections) ==
    /\ sections.keywords.power_verbs.count = 0
    /\ sections.keywords.technical_skills.count = 0
    /\ sections.keywords.soft_skills.count = 0
    /\ sections.keywords.job_match.matched_count = 0
    /\ sections.formatting.bullet_points = 0
    /\ sections.content_quality.word_count = 0
    /\ sections.content_quality.sentence_count = 0
    /\ sections.content_quality.bullet_points = 0
    /\ sections.content_quality.quantified_achievements = 0
    /\ sections.content_quality.avg_words_per_sentence.num = 0
    /\ sections.quantification.total_bullets = 0
    /\ sections.quantification.quantified_bullets = 0
    /\ sections.quantification.quantification_rate.num = 0

\* C18: a file that cannot be read, or a PDF, is extracted as the empty text
\* without an exception, and its scan returns a result dict, not the error
\* dict, with every count and rate zero
C18_UnreadableScansEmpty ==
    \A i \in DOMAIN scans :
        Unreadable(scans[i].request.cv_path)
           => /\ _extract_text(scans[i].request.cv_path) = Returned(<<>>)
              /\ i \in Scanned
              /\ AllZero(scans[i].results.sections)

\* scan_cv of a text file that does not exist returned a result dict
C18_Witness ==
    \E i \in Scanned :
        /\ scans[i].method = "scan_cv"
        /\ scans[i].request.cv_path.status = "missing"
        /\ scans[i].request.cv_path.suffix = <<".","t","x","t">>
        /\ scans[i].request.cv_path.text # <<>>
        /\ scans[i].results.sections.quantification.total_bullets = 0

\* C19: the role_alignment standard scores 50 when no target role is given,
\* and otherwise 100 times the share of the role's keywords found in the text
C19_RoleAlignmentStandard ==
    \A i \in EnhancedScanned :
        LET analysis == scans[i].results.enhanced_analysis
            score ==
                analysis.industry_standards.standards["role_alignment"].score
        IN  IF scans[i].request.target_role = <<>>
            THEN score = NeutralAlignment
            ELSE RatioOf(score) = analysis.role_alignment.alignment_score

\* C20: the quantification_standard score is 0 with the finding of no
\* bullets for a text without bullets, 95 for a rate of 80 or more, 80 for a
\* rate from 60 to below 80, and below 60 the integer nearest to the rate
C20_QuantificationStandardScore ==
    \A i \in EnhancedScanned :
        LET quantification == scans[i].results.sections.quantification
            rate == quantification.quantification_rate
            standard ==
                scans[i].results.enhanced_analysis.industry_standards
                    .standards["quantification_standard"]
        IN  IF quantification.total_bullets = 0
            THEN /\ standard.score = 0
                 /\ standard.findings = << <<"N","o"," ","b","u","l","l","e","t"," ","p","o","i","n","t","s"," ","f","o","u","n","d">> >>
            ELSE IF RatioLeq(RatioOf(80), rate) THEN standard.score = 95
            ELSE IF RatioLeq(RatioOf(60), rate) THEN standard.score = 80
            ELSE 2 * Abs(standard.score * rate.den - rate.num) <= rate.den

(***************************************************************************)
(* load_config (src/ats_app/config.py).  Python values are written as in   *)
(* the model of json.loads: a dict is the sequence of its <<key, value>>   *)
(* pairs in insertion order.                                               *)
(***************************************************************************)
DEFAULT_CONFIG ==
    PyValue("dict", <<<<<<"l","o","g","g","i","n","g">>, PyValue("dict",
    <<<<<<"l","e","v","e","l">>, PyStr(<<"I","N","F","O">>)>>,
    <<<<"f","i","l","e">>,
    PyStr(<<"l","o","g","s","/","a","p","p",".","l","o","g">>)>>,
    <<<<"r","o","t","a","t","e","_","m","b">>, PyValue("number",
    <<"5">>)>>>>)>>, <<<<"a","t","s">>, PyValue("dict",
    <<<<<<"u","k","_","s","p","e","l","l","i","n","g","s">>,
    PyList(<<PyList(<<PyStr(<<"o","p","t","i","m","i","z","e">>),
    PyStr(<<"o","p","t","i","m","i","s","e">>)>>),
    PyList(<<PyStr(<<"o","p","t","i","m","i","z","a","t","i","o","n">>),
    PyStr(<<"o","p","t","i","m","i","s","a","t","i","o","n">>)>>),
    PyList(<<PyStr(<<"p","r","o","g","r","a","m">>),
    PyStr(<<"p","r","o","g","r","a","m","m","e">>)>>)>>)>>,
    <<<<"h","a","r","d","_","k","e","y","w","o","r","d","s">>,
    PyList(<<PyStr(<<"a","w","s">>), PyStr(<<"e","c","2">>),
    PyStr(<<"e","c","s">>), PyStr(<<"e","k","s">>),
    PyStr(<<"l","a","m","b","d","a">>), PyStr(<<"r","d","s">>),
    PyStr(<<"v","p","c">>), PyStr(<<"i","a","m">>),
    PyStr(<<"c","l","o","u","d","w","a","t","c","h">>), PyStr(<<"s","3">>),
    PyStr(<<"k","u","b","e","r","n","e","t","e","s">>),
    PyStr(<<"c","o","n","t","a","i","n","e","r">>),
    PyStr(<<"m","i","c","r","o","s","e","r","v","i","c","e","s">>),
    PyStr(<<"c","l","u","s","t","e","r"," ","m","a","n","a","g","e","m","e","n","t">>),
    PyStr(<<"t","e","r","r","a","f","o","r","m">>),
    PyStr(<<"c","l","o","u","d","f","o","r","m","a","t","i","o","n">>),
    PyStr(<<"j","e","n","k","i","n","s">>),
    PyStr(<<"g","i","t","l","a","b"," ","c","i">>),
    PyStr(<<"a","z","u","r","e"," ","d","e","v","o","p","s">>),
    PyStr(<<"x","l"," ","r","e","l","e","a","s","e">>),
    PyStr(<<"p","y","t","h","o","n">>), PyStr(<<"b","a","s","h">>),
    PyStr(<<"p","o","w","e","r","s","h","e","l","l">>),
    PyStr(<<"g","r","o","o","v","y">>),
    PyStr(<<"m","o","n","i","t","o","r","i","n","g">>),
    PyStr(<<"l","o","g","g","i","n","g">>),
    PyStr(<<"a","l","e","r","t","i","n","g">>),
    PyStr(<<"p","r","o","m","e","t","h","e","u","s">>),
    PyStr(<<"g","r","a","f","a","n","a">>), PyStr(<<"l","o","k","i">>),
    PyStr(<<"d","a","t","a","d","o","g">>),
    PyStr(<<"o","b","s","e","r","v","a","b","i","l","i","t","y">>),
    PyStr(<<"s","e","c","u","r","i","t","y">>),
    PyStr(<<"i","a","m"," ","p","o","l","i","c","i","e","s">>),
    PyStr(<<"s","e","c","u","r","i","t","y"," ","g","r","o","u","p","s">>),
    PyStr(<<"v","p","c"," ","c","o","n","f","i","g","u","r","a","t","i","o","n","s">>),
    PyStr(<<"p","c","i">>), PyStr(<<"g","d","p","r">>),
    PyStr(<<"i","s","o"," ","2","7","0","0","1">>),
    PyStr(<<"a","u","t","o","m","a","t","i","o","n">>),
    PyStr(<<"c","o","s","t"," ","o","p","t","i","m","i","s","a","t","i","o","n">>),
    PyStr(<<"b","u","d","g","e","t","s">>),
    PyStr(<<"m","e","n","t","o","r","i","n","g">>),
    PyStr(<<"d","o","c","u","m","e","n","t","a","t","i","o","n">>)>>)>>,
    <<<<"s","o","f","t","_","k","e","y","w","o","r","d","s">>,
    PyList(<<PyStr(<<"c","o","l","l","a","b","o","r","a","t","i","o","n">>),
    PyStr(<<"t","r","o","u","b","l","e","s","h","o","o","t","i","n","g">>),
    PyStr(<<"c","o","m","m","u","n","i","c","a","t","i","o","n">>),
    PyStr(<<"s","t","a","k","e","h","o","l","d","e","r">>),
    PyStr(<<"l","e","a","d","e","r","s","h","i","p">>),
    PyStr(<<"m","e","n","t","o","r","i","n","g">>),
    PyStr(<<"d","o","c","u","m","e","n","t","a","t","i","o","n">>),
    PyStr(<<"t","e","a","m","w","o","r","k">>),
    PyStr(<<"p","r","o","b","l","e","m","-","s","o","l","v","i","n","g">>)>>)>>,
    <<<<"r","e","d","_","f","l","a","g","s">>, PyList(<<PyValue("dict",
    <<<<<<"p","a","t","t","e","r","n">>,
    PyStr(<<"\\","b","e","x","p","e","r","t","\\","b",".","*","\\","b","p","y","t","h","o","n","\\","b">>)>>,
    <<<<"m","e","s","s","a","g","e">>,
    PyStr(<<"A","v","o","i","d"," ","o","v","e","r","s","t","a","t","i","n","g"," ","c","o","d","i","n","g"," ","p","r","o","f","i","c","i","e","n","c","y",";"," ","u","s","e"," ","'","b","a","s","i","c"," ","s","c","r","i","p","t","i","n","g"," ","i","n"," ","P","y","t","h","o","n","'",".">>)>>>>),
    PyValue("dict", <<<<<<"p","a","t","t","e","r","n">>,
    PyStr(<<"\\","b","e","x","p","e","r","t","\\","b",".","*","\\","b","a","n","s","i","b","l","e","\\","b">>)>>,
    <<<<"m","e","s","s","a","g","e">>,
    PyStr(<<"U","s","e"," ","'","b","a","s","i","c"," ","e","x","p","o","s","u","r","e"," ","t","o"," ","A","n","s","i","b","l","e","'"," ","i","f"," ","t","r","u","e",".">>)>>>>),
    PyValue("dict", <<<<<<"p","a","t","t","e","r","n">>,
    PyStr(<<"\\","b","o","w","n","e","d","\\","b",".","*","\\","b","e","k","s","\\","b">>)>>,
    <<<<"m","e","s","s","a","g","e">>,
    PyStr(<<"I","f"," ","E","K","S"," ","i","s"," ","l","i","m","i","t","e","d",","," ","p","h","r","a","s","e"," ","a","s"," ","'","w","o","r","k","i","n","g"," ","k","n","o","w","l","e","d","g","e",";"," ","l","a","b","s"," ","a","n","d"," ","l","i","m","i","t","e","d"," ","p","r","o","d","u","c","t","i","o","n","U+2011","a","d","j","a","c","e","n","t"," ","u","s","e","'",".">>)>>>>)>>)>>,
    <<<<"w","e","i","g","h","t","s">>, PyValue("dict",
    <<<<<<"h","a","r","d">>, PyValue("number", <<"0",".","7">>)>>,
    <<<<"s","o","f","t">>, PyValue("number", <<"0",".","3">>)>>>>)>>>>)>>>>)

(***************************************************************************)
(* yaml.safe_load on the documents of ConfigDocuments: the empty document, *)
(* documents in flow style that are also JSON, unfinished flow collections *)
(* and quoted scalars, and plain scalars made of letters.  Block-style     *)
(* documents are not modelled.  ok = FALSE stands for yaml.YAMLError.      *)
(***************************************************************************)
yaml_safe_load(s) ==
    LET j == SkipWS(s, 1)
    IN  IF j > Len(s) THEN ParseOk(PyNone, j)
        ELSE IF s[j] \in Letters /\ ~json_loads(s).ok
        THEN LET e == RunEnd(s, j, Letters)
             IN  IF SkipWS(s, e) > Len(s)
                 THEN ParseOk(PyStr(SubSeq(s, j, e - 1)), Len(s) + 1)
                 ELSE ParseFail
        ELSE json_loads(s)

\* bool(v) of a parsed value
Truthy(v) ==
    CASE v.type = "null" -> FALSE
      [] v.type = "bool" -> v.val = <<"t", "r", "u", "e">>
      [] v.type = "number" -> \E i \in 1..Len(v.val) : v.val[i] \notin {"0", "."}
      [] OTHER -> v.val # <<>>

\* d[key] = value for a dict d: a key that d holds keeps its place
SetKey(d, key, value) ==
    IF HasKey(d, key)
    THEN PyValue("dict",
            [i \in 1..Len(d.val) |->
                IF d.val[i][1] = key THEN <<key, value>> ELSE d.val[i]])
    ELSE PyValue("dict", Append(d.val, <<key, value>>))

\* the items of an element of the sequence given to dict.update, <<>> when
\* the element cannot be iterated; iterating a dict gives its keys
ItemsOf(element) ==
    CASE element.type = "list" -> element.val
      [] element.type = "str" ->
            [i \in 1..Len(element.val) |-> PyStr(<<element.val[i]>>)]
      [] element.type = "dict" ->
            [i \in 1..Len(element.val) |-> PyStr(element.val[i][1])]
      [] OTHER -> <<>>

RECURSIVE UpdateFromPairs(_, _, _)
\* dict.update(elements) from element k on: every element must be iterable
\* and hold two items, the first of them hashable.  A key that is a number,
\* a bool or None is kept by its literal.
UpdateFromPairs(d, elements, k) ==
    IF k > Len(elements) THEN Returned(d)
    ELSE LET element == elements[k]
             items == ItemsOf(element)
         IN  IF element.type \in {"number", "bool", "null"}
             THEN Raised("TypeError")
             ELSE IF Len(items) # 2 THEN Raised("ValueError")
             ELSE IF items[1].type \in {"list", "dict"}
             THEN Raised("TypeError")
             ELSE UpdateFromPairs(SetKey(d, items[1].val, items[2]),
                                  elements, k + 1)

\* cfg.update(user_cfg): a mapping is merged key by key, any other iterable is
\* read as a sequence of key/value pairs, a value that is not iterable raises
dict_update(cfg, user_cfg) ==
    CASE user_cfg.type = "dict" ->
            UpdateFromPairs(cfg,
                [i \in 1..Len(user_cfg.val) |->
                    PyList(<<PyStr(user_cfg.val[i][1]), user_cfg.val[i][2]>>)],
                1)
      [] user_cfg.type \in {"list", "str"} ->
            UpdateFromPairs(cfg, ItemsOf(user_cfg), 1)
      [] OTHER -> Raised("TypeError")

\* a file system with at most one file; path is None, "" or a file name
ConfigFile(name, content) == [name |-> name, content |-> content]

NoFile == [name |-> PyNone, content |-> <<>>]

load_config(path, file) ==
    IF path = PyNone \/ path = PyStr(<<>>) THEN Returned(DEFAULT_CONFIG)
    ELSE IF file.name # path THEN Returned(DEFAULT_CONFIG)
    ELSE LET loaded == yaml_safe_load(file.content)
             user_cfg == IF Truthy(loaded.val) THEN loaded.val
                         ELSE PyValue("dict", <<>>)
         IN  IF ~loaded.ok THEN Raised("YAMLError")
             ELSE dict_update(DEFAULT_CONFIG, user_cfg)

\* one call load_config(config_path)
LoadConfig ==
    /\ config_result = NoResult
    /\ config_result' = load_config(config_path, config_file)
    /\ UNCHANGED <<config_path, config_file>>
    /\ UNCHANGED <<request_vars, validate_vars, scan_vars, requests, call_vars>>

ConfigDocuments ==
    { <<>>, <<" ","\n">>, <<"{","}">>, <<"[","]">>, <<"0">>, <<"n","u","l","l">>, <<"f","a","l","s","e">>,
      <<"{","\"","l","o","g","g","i","n","g","\"",":"," ","5","}">>, <<"{","\"","l","l","m","\"",":"," ","{","\"","p","r","o","v","i","d","e","r","\"",":"," ","\"","o","l","l","a","m","a","\"","}","}">>,
      <<"{","\"","a","t","s","\"",":"," ","{","}",","," ","\"","l","o","g","g","i","n","g","\"",":"," ","{","\"","l","e","v","e","l","\"",":"," ","\"","D","E","B","U","G","\"","}","}">>,
      <<"5">>, <<"t","r","u","e">>, <<"a","b","c">>, <<"\"","a","b","\"">>, <<"[","1","]">>, <<"[","\"","a","b","\"","]">>,
      <<"[","[","\"","l","o","g","g","i","n","g","\"",","," ","5","]","]">>, <<"[","[","[","1","]",","," ","2","]","]">>, <<"[","{","\"","a","\"",":"," ","1","}","]">>,
      <<"{","\"","l","o","g","g","i","n","g","\"",":"," ">>, <<"[">>, <<"\"","a","b">>, <<"{","\"","a","\"",":"," ","1">> }

ConfigPaths == { PyNone, PyStr(<<>>), PyStr(<<"c","o","n","f","i","g",".","y","a","m","l">>),
                 PyStr(<<"o","t","h","e","r",".","y","a","m","l">>) }

ConfigFiles ==
    {NoFile}
    \cup {ConfigFile(PyStr(<<"c","o","n","f","i","g",".","y","a","m","l">>), content) :
             content \in ConfigDocuments}

InitConfig ==
    /\ config_path \in ConfigPaths
    /\ config_file \in ConfigFiles
    /\ config_result = NoResult
    /\ NoRequest
    /\ NoValidation
    /\ NoScanner
    /\ NoCalls

SpecConfig == InitConfig /\ [][LoadConfig]_vars

\* the file of the call is missing
ConfigMissing == config_file.name # config_path

\* the file of the call exists and is invalid: it cannot be parsed, or what
\* it holds is not a mapping
ConfigInvalid ==
    /\ config_file.name = config_path
    /\ LET loaded == yaml_safe_load(config_file.content)
       IN  ~loaded.ok \/ loaded.val.type # "dict"

\* C17: a call of load_config with a missing file, or with a file that is
\* invalid, returns the default configuration and raises nothing
C17_DefaultsOnInvalid ==
    /\ config_result # NoResult
    /\ ConfigMissing \/ ConfigInvalid
    => config_result = Returned(DEFAULT_CONFIG)

(***************************************************************************)
(* Requests optimize_cv served at the same time by one CVOptimizer.  Every *)
(* call has its own frame of local values; the instance holds              *)
(* self.llm_config, of which the calls read the provider.  A step of a     *)
(* request is the stage of optimize_cv that the request is at; the steps   *)
(* of different requests interleave in any order.                          *)
(***************************************************************************)
Frame(text) ==
    [cv_text |-> text, pc |-> "START", llm_event |-> NoResult,
     optimization_result |-> NoResult, validation_result |-> NoResult,
     result |-> NoResult]

\* the frame after the next stage of optimize_cv; event is what the endpoint
\* does if the stage is the call of _call_llm_api
RequestStep(frame, llm_provider, event) ==
    CASE frame.pc = "START" -> [frame EXCEPT !.pc = "PROMPT_BUILT"]
      [] frame.pc = "PROMPT_BUILT" ->
            [frame EXCEPT !.pc = "LLM_CALLED",
                          !.llm_event =
                              IF llm_provider = "ollama" THEN event
                              ELSE [kind |-> "unsupported_provider",
                                    response |-> PyNone]]
      [] frame.pc = "LLM_CALLED" ->
            IF frame.llm_event.kind = "ok"
               /\ frame.llm_event.response.type = "str"
            THEN [frame EXCEPT !.pc = "RESPONSE_PARSED",
                               !.optimization_result =
                                   _parse_optimization_response(
                                       frame.llm_event.response.val,
                                       frame.cv_text)]
            ELSE [frame EXCEPT !.pc = "LLM_FAILED",
                               !.optimization_result =
                                   _fallback_optimization(frame.cv_text)]
      [] frame.pc \in {"RESPONSE_PARSED", "LLM_FAILED"} ->
            IF frame.optimization_result.optimized_content.type = "str"
            THEN [frame EXCEPT !.pc = "VALIDATED",
                               !.validation_result =
                                   _validate_improvements(frame.cv_text,
                                       frame.optimization_result
                                            .optimized_content.val)]
            ELSE [frame EXCEPT !.pc = "DONE",
                               !.result = optimize_cv_error("AttributeError")]
      [] frame.pc = "VALIDATED" ->
            [frame EXCEPT !.pc = "DONE",
                          !.result =
                              optimize_cv_return(frame.cv_text,
                                                 frame.optimization_result,
                                                 frame.validation_result)]
      [] OTHER -> frame

ConcurrentTexts == { <<"-"," ","w","o","r","k","e","d"," ","o","n"," ","x">>, <<"P","l","a","i","n","\n","-"," ","a","r","c","h","i","t","e","c","t","e","d"," ","5">> }

\* what the endpoint does with a call
ConcurrentEvents ==
    { [kind |-> "timeout", response |-> PyNone],
      [kind |-> "ok", response |-> PyNone],
      [kind |-> "ok", response |-> PyStr(<<"a","b","c","d">>)],
      [kind |-> "ok",
       response |->
          PyStr(<<"{","\"","o","p","t","i","m","i","z","e","d","_","c","o","n","t","e","n","t","\"",":","\"","-"," ","a","r","c","h","i","t","e","c","t","e","d"," ","5","\"",",","\"","i","m","p","r","o","v","e","m","e","n","t","s","\"",":","[","]","}">>)] }

\* a failed call switches the provider of the instance off
ProviderAfter_switch_off(llm_provider, frame) ==
    IF frame.pc = "LLM_FAILED" THEN "none" ELSE llm_provider

\* self.llm_config['provider'] after a stage: no stage assigns to self
ProviderAfter(llm_provider, frame) == llm_provider

\* the next stage of request r
StepRequest(r) ==
    /\ requests[r].pc # "DONE"
    /\ \E event \in ConcurrentEvents :
          /\ requests' = [requests EXCEPT ![r] =
                             RequestStep(requests[r], provider, event)]
          /\ provider' = ProviderAfter(provider, requests'[r])
    /\ UNCHANGED <<cv_text, pc, trace, llm_calls, llm_event,
                   optimization_result, validation_result, result>>
    /\ UNCHANGED <<validate_vars, scan_vars, config_vars, call_vars>>

StepFirst == StepRequest(1)

StepSecond == StepRequest(2)

InitConcurrent ==
    /\ requests \in [1..2 -> {Frame(text) : text \in ConcurrentTexts}]
    /\ provider \in Providers
    /\ cv_text = <<>>
    /\ pc = "IDLE"
    /\ trace = <<>>
    /\ llm_calls = 0
    /\ llm_event = NoResult
    /\ optimization_result = NoResult
    /\ validation_result = NoResult
    /\ result = NoResult
    /\ NoValidation
    /\ NoScanner
    /\ NoConfig
    /\ NoCalls

NextConcurrent ==
    \/ StepFirst
    \/ StepSecond

SpecConcurrent == InitConcurrent /\ [][NextConcurrent]_vars

RECURSIVE RunAlone(_, _, _)
\* the frame a request ends with when no other request is served
RunAlone(frame, llm_provider, event) ==
    IF frame.pc = "DONE" THEN frame
    ELSE RunAlone(RequestStep(frame, llm_provider, event), llm_provider,
                  event)

StandardCount == 7      \* the standards of the catalogue

RECURSIVE SumScores(_, _)
\* the sum of the scores of the standards named
SumScores(standards, names) ==
    IF names = {} THEN 0
    ELSE LET n == CHOOSE m \in names : TRUE
         IN  standards[n].score + SumScores(standards, names \ {n})

\* C21: the overall compliance score is the unweighted mean of the seven
\* standard scores, each an integer from 0 to 100, and compliant_standards
\* counts the standards that score 80 or more
C21_ComplianceIsMean ==
    \A i \in EnhancedScanned :
        LET industry == scans[i].results.enhanced_analysis.industry_standards
            standards == industry.standards
            names == DOMAIN standards
        IN  /\ Cardinality(names) = StandardCount
            /\ industry.total_standards = StandardCount
            /\ \A n \in names : standards[n].score \in 0..100
            /\ RatioMul(industry.overall_compliance_score,
                        RatioOf(StandardCount))
                  = RatioOf(SumScores(standards, names))
            /\ industry.compliant_standards
                  = Cardinality({n \in names : standards[n].score >= 80})

\* an enhanced scan with a standard at exactly 80, one below it and one
\* above it
C21_Witness ==
    \E i \in EnhancedScanned :
        LET standards ==
                scans[i].results.enhanced_analysis.industry_standards.standards
        IN  /\ \E n \in DOMAIN standards : standards[n].score = 80
            /\ \E n \in DOMAIN standards : standards[n].score < 80
            /\ \E n \in DOMAIN standards : standards[n].score > 80

\* the sub-scores of the enhanced layer that _calculate_enhanced_score reads
EnhancedSubScores(results) ==
    LET analysis == results.enhanced_analysis
    IN  << analysis.industry_standards.overall_compliance_score,
           analysis.verb_hierarchy.tier_distribution_score,
           RatioOf(analysis.leadership_analysis.leadership_score),
           RatioOf(analysis.impact_analysis.impact_score),
           analysis.content_depth.depth_score,
           RatioOf(analysis.professional_presentation.presentation_score) >>

\* C22: enhanced_score blends overall_score with weight 60% and the enhanced
\* layer with weight 40%: between two enhanced scans with the same enhanced
\* sub-scores, enhanced_score differs by 0.6 times the difference of
\* overall_score, up to the truncation of int() (by less than 1), and so is
\* the same when overall_score is the same
C22_BlendOfOverallScore ==
    \A i, j \in EnhancedScanned :
        EnhancedSubScores(scans[i].results) = EnhancedSubScores(scans[j].results)
           => Abs(10 * (scans[i].results.enhanced_score
                           - scans[j].results.enhanced_score)
                  - 6 * (scans[i].results.overall_score
                           - scans[j].results.overall_score)) < 10

(***************************************************************************)
(* report.py: the executive summary and the improvement recommendations.   *)
(***************************************************************************)
\* dict.get(key, default)
Get(dict, key, default) == IF key \in DOMAIN dict THEN dict[key] ELSE default

NoKeys == [key \in {} |-> 0]    \* the dict {}

\* any(keyword in rec_lower for keyword in keywords)
AnyKeyword(keywords, rec_lower) ==
    \E k \in DOMAIN keywords : Contains(rec_lower, keywords[k])

_estimate_impact(recommendation) ==
    LET high_impact_keywords ==
            << <<"q","u","a","n","t","i","f">>, <<"a","c","t","i","o","n"," ","v","e","r","b">>, <<"a","t","s">>, <<"k","e","y","w","o","r","d">>,
               <<"a","c","h","i","e","v","e","m","e","n","t">> >>
        medium_impact_keywords ==
            << <<"f","o","r","m","a","t">>, <<"s","e","c","t","i","o","n">>, <<"b","u","l","l","e","t">>, <<"p","r","o","f","e","s","s","i","o","n","a","l">> >>
        rec_lower == lower(recommendation)
    IN  IF AnyKeyword(high_impact_keywords, rec_lower) THEN 8
        ELSE IF AnyKeyword(medium_impact_keywords, rec_lower) THEN 6
        ELSE 4

_estimate_effort(recommendation) ==
    LET low_effort_keywords == << <<"a","d","d">>, <<"i","n","c","l","u","d","e">>, <<"f","i","x">>, <<"r","e","m","o","v","e">> >>
        high_effort_keywords ==
            << <<"r","e","w","r","i","t","e">>, <<"r","e","s","t","r","u","c","t","u","r","e">>, <<"c","o","m","p","l","e","t","e">>, <<"o","v","e","r","h","a","u","l">> >>
        rec_lower == lower(recommendation)
    IN  IF AnyKeyword(high_effort_keywords, rec_lower) THEN 8
        ELSE IF AnyKeyword(low_effort_keywords, rec_lower) THEN 3
        ELSE 5

\* the first category of the dict, in the order of its keys, with a keyword
\* in the text
_categorize_recommendation(recommendation) ==
    LET rec_lower == lower(recommendation)
    IN  IF AnyKeyword(<< <<"q","u","a","n","t","i","f">>, <<"a","c","h","i","e","v","e","m","e","n","t">>, <<"b","u","l","l","e","t">>, <<"v","e","r","b">> >>,
                      rec_lower) THEN "content"
        ELSE IF AnyKeyword(<< <<"f","o","r","m","a","t">>, <<"s","e","c","t","i","o","n">>, <<"a","t","s">> >>, rec_lower)
        THEN "formatting"
        ELSE IF AnyKeyword(<< <<"k","e","y","w","o","r","d">>, <<"s","k","i","l","l">>, <<"t","e","c","h","n","i","c","a","l">> >>,
                           rec_lower) THEN "keywords"
        ELSE IF AnyKeyword(<< <<"s","e","c","t","i","o","n">>, <<"s","u","m","m","a","r","y">>, <<"e","x","p","e","r","i","e","n","c","e">> >>,
                           rec_lower) THEN "structure"
        ELSE "general"

\* rec_item of the loop of _create_improvement_recommendations
RecItem(rec) ==
    [recommendation |-> rec,
     estimated_impact |-> _estimate_impact(rec),
     effort_level |-> _estimate_effort(rec),
     category |-> _categorize_recommendation(rec)]

\* an item that is high priority is also appended to medium_priority: the
\* second test is an 'if' instead of an 'elif'
_create_improvement_recommendations_if(analysis_results_) ==
    LET all_recommendations ==
            Get(analysis_results_, "recommendations", <<>>)
               \o Get(analysis_results_, "enhanced_recommendations", <<>>)
        items == [k \in DOMAIN all_recommendations |->
                     RecItem(all_recommendations[k])]
        high_priority ==
            SelectSeq(items, LAMBDA item : item.estimated_impact >= 8)
        medium_priority ==
            SelectSeq(items, LAMBDA item : item.estimated_impact >= 6)
        low_priority ==
            SelectSeq(items, LAMBDA item : item.estimated_impact < 6)
        quick_wins ==
            SelectSeq(items, LAMBDA item : /\ item.estimated_impact >= 7
                                           /\ item.effort_level <= 3)
        strategic_improvements ==
            SelectSeq(items, LAMBDA item : /\ item.estimated_impact >= 8
                                           /\ item.effort_level >= 7)
    IN  [high_priority |-> high_priority,
         medium_priority |-> medium_priority,
         low_priority |-> low_priority,
         quick_wins |-> quick_wins,
         strategic_improvements |-> strategic_improvements,
         implementation_timeline |->
            [immediate |-> Len(quick_wins),
             short_term |-> Len(high_priority) - Len(quick_wins),
             medium_term |-> Len(medium_priority),
             long_term |-> Len(strategic_improvements)]]

\* the loop appends each item to its lists in the order of
\* all_recommendations, so each list is the items that pass its test
_create_improvement_recommendations(analysis_results_) ==
    LET all_recommendations ==
            Get(analysis_results_, "recommendations", <<>>)
               \o Get(analysis_results_, "enhanced_recommendations", <<>>)
        items == [k \in DOMAIN all_recommendations |->
                     RecItem(all_recommendations[k])]
        high_priority ==
            SelectSeq(items, LAMBDA item : item.estimated_impact >= 8)
        medium_priority ==
            SelectSeq(items, LAMBDA item : /\ item.estimated_impact < 8
                                           /\ item.estimated_impact >= 6)
        low_priority ==
            SelectSeq(items, LAMBDA item : item.estimated_impact < 6)
        quick_wins ==
            SelectSeq(items, LAMBDA item : /\ item.estimated_impact >= 7
                                           /\ item.effort_level <= 3)
        strategic_improvements ==
            SelectSeq(items, LAMBDA item : /\ item.estimated_impact >= 8
                                           /\ item.effort_level >= 7)
    IN  [high_priority |-> high_priority,
         medium_priority |-> medium_priority,
         low_priority |-> low_priority,
         quick_wins |-> quick_wins,
         strategic_improvements |-> strategic_improvements,
         implementation_timeline |->
            [immediate |-> Len(quick_wins),
             short_term |-> Len(high_priority) - Len(quick_wins),
             medium_term |-> Len(medium_priority),
             long_term |-> Len(strategic_improvements)]]

\* grade and assessment of a score
Grade(enhanced_score) ==
    IF enhanced_score >= 90 THEN <<"A+", "Excellent">>
    ELSE IF enhanced_score >= 80 THEN <<"A", "Very Good">>
    ELSE IF enhanced_score >= 70 THEN <<"B", "Good">>
    ELSE IF enhanced_score >= 60 THEN <<"C", "Needs Improvement">>
    ELSE <<"D", "Significant Improvements Required">>

\* the grade is taken from overall_score even when the dict has an
\* enhanced_score
_create_executive_summary_overall(analysis_results_) ==
    LET overall_score == Get(analysis_results_, "overall_score", 0)
        enhanced_score == overall_score
        ats_score ==
            Get(Get(Get(analysis_results_, "sections", NoKeys),
                    "ats_compatibility", NoKeys), "score", 0)
    IN  [overall_assessment |->
            [score |-> enhanced_score,
             grade |-> Grade(enhanced_score)[1],
             assessment |-> Grade(enhanced_score)[2],
             improvement_potential |-> Max(0, 95 - enhanced_score)],
         ats_readiness |->
            [score |-> ats_score,
             status |-> IF ats_score >= 80 THEN "Ready" ELSE "Needs Work"]]

\* key_strengths, critical_weaknesses and priority_actions, lists of fixed
\* texts chosen by the section scores, and optimization_impact, present only
\* with optimization results, are left out: nothing of the summary reads them
_create_executive_summary(analysis_results_) ==
    LET overall_score == Get(analysis_results_, "overall_score", 0)
        enhanced_score == Get(analysis_results_, "enhanced_score", overall_score)
        ats_score ==
            Get(Get(Get(analysis_results_, "sections", NoKeys),
                    "ats_compatibility", NoKeys), "score", 0)
    IN  [overall_assessment |->
            [score |-> enhanced_score,
             grade |-> Grade(enhanced_score)[1],
             assessment |-> Grade(enhanced_score)[2],
             improvement_potential |-> Max(0, 95 - enhanced_score)],
         ats_readiness |->
            [score |-> ats_score,
             status |-> IF ats_score >= 80 THEN "Ready" ELSE "Needs Work"]]

\* the sections of the report that the summary and the recommendations fill;
\* metadata, detailed_analysis, ats_compliance and performance_metrics are
\* built by their own methods from analysis_results and read by none of
\* these two
generate_comprehensive_report(analysis_results_) ==
    [executive_summary |-> _create_executive_summary(analysis_results_),
     improvement_recommendations |->
        _create_improvement_recommendations(analysis_results_)]

(***************************************************************************)
(* Reports: of a dict of scores and recommendations, and of the scores     *)
(* that enhanced_scan computes from a sheet of sub-scores.                 *)
(***************************************************************************)
MaxScore == 100         \* highest score of an analysis given to the report
MaxRecs == 2            \* most entries of 'recommendations' of an analysis

\* scores next to the thresholds of the grades
GradeEdges == {0, 59, 60, 69, 70, 79, 80, 89, 90, 100}

\* texts of recommendations: three written by the scanners, and six more so
\* that every pair of impact and effort has one
RecommendationTexts ==
    { <<"A","d","d"," ","m","o","r","e"," ","q","u","a","n","t","i","f","i","e","d"," ","a","c","h","i","e","v","e","m","e","n","t","s"," ","w","i","t","h"," ","s","p","e","c","i","f","i","c"," ","n","u","m","b","e","r","s"," ","a","n","d"," ","r","e","s","u","l","t","s">>,
      <<"U","s","e"," ","m","o","r","e"," ","b","u","l","l","e","t"," ","p","o","i","n","t","s"," ","t","o"," ","i","m","p","r","o","v","e"," ","r","e","a","d","a","b","i","l","i","t","y">>,
      <<"A","d","d"," ","m","o","r","e"," ","p","o","w","e","r"," ","v","e","r","b","s"," ","t","o"," ","s","t","r","e","n","g","t","h","e","n"," ","i","m","p","a","c","t"," ","s","t","a","t","e","m","e","n","t","s">>,
      <<"U","s","e"," ","k","e","y","w","o","r","d","s">>, <<"R","e","w","r","i","t","e"," ","b","u","l","l","e","t","s"," ","w","i","t","h"," ","a","c","t","i","o","n"," ","v","e","r","b","s">>,
      <<"F","i","x"," ","d","a","t","e"," ","f","o","r","m","a","t">>, <<"R","e","s","t","r","u","c","t","u","r","e"," ","s","e","c","t","i","o","n","s">>, <<"C","h","e","c","k"," ","s","p","e","l","l","i","n","g">>,
      <<"O","v","e","r","h","a","u","l"," ","i","t">> }

\* the lists of at most n entries of a pool
ListsUpTo(pool, n) == UNION {[1..k -> pool] : k \in 0..n}

\* analyses that hold scores only
ScoreAnalyses ==
    {NoKeys}
    \cup {[overall_score |-> o] : o \in 0..MaxScore}
    \cup {[enhanced_score |-> e] : e \in 0..MaxScore}
    \cup {[overall_score |-> o, enhanced_score |-> e] :
            o \in GradeEdges, e \in GradeEdges}

\* analyses with recommendations of the base and of the enhanced scan
RecommendationAnalyses ==
    {[overall_score |-> 50, recommendations |-> base,
      enhanced_recommendations |-> enhanced] :
        base \in ListsUpTo(RecommendationTexts, MaxRecs),
        enhanced \in ListsUpTo(RecommendationTexts, 1)}

SubScores == {0, 50, 100}

\* the sections and enhanced_analysis of a scan reduced to the sub-scores
\* that the two score methods read
ScoreSheet(base, other, enhanced) ==
    [sections |->
        [keywords |->
            [power_verbs |-> [score |-> base[1]],
             technical_skills |-> [score |-> base[2]],
             soft_skills |-> [score |-> other],
             job_match |-> [score |-> RatioOf(other)]],
         formatting |-> [overall_formatting_score |-> RatioOf(base[3])],
         content_quality |-> [quality_score |-> other],
         ats_compatibility |-> [score |-> base[4]],
         quantification |-> [score |-> RatioOf(other)]],
     enhanced_analysis |->
        [industry_standards |->
            [overall_compliance_score |-> RatioOf(enhanced[1])],
         verb_hierarchy |-> [tier_distribution_score |-> RatioOf(enhanced[2])],
         leadership_analysis |-> [leadership_score |-> enhanced[3]],
         impact_analysis |-> [impact_score |-> enhanced[4]],
         content_depth |-> [depth_score |-> RatioOf(enhanced[5])],
         professional_presentation |-> [presentation_score |-> enhanced[6]]]]

ScoreSheets ==
    {ScoreSheet(base, other, enhanced) :
        base \in [1..4 -> SubScores], other \in {0, 100},
        enhanced \in [1..6 -> {0, 100}]}

\* an analysis of enhanced_scan before its scores are computed
Unscored(analysis) ==
    /\ "enhanced_analysis" \in DOMAIN analysis
    /\ "enhanced_score" \notin DOMAIN analysis

InitReport ==
    /\ analysis_results \in
          ScoreAnalyses \cup RecommendationAnalyses \cup ScoreSheets
    /\ report = NoResult
    /\ NoRequest
    /\ NoValidation
    /\ NoScanner
    /\ NoConfig
    /\ NoSuggestions
    /\ NoFallback

\* the scores of enhanced_scan: overall_score of the base scan and
\* enhanced_score of the update of its results
Score ==
    /\ Unscored(analysis_results)
    /\ analysis_results' =
          [overall_score |->
              _calculate_overall_score(analysis_results.sections),
           sections |-> analysis_results.sections,
           enhanced_analysis |-> analysis_results.enhanced_analysis,
           enhanced_score |->
              _calculate_enhanced_score(analysis_results.sections,
                                        analysis_results.enhanced_analysis)]
    /\ UNCHANGED report
    /\ UNCHANGED <<request_vars, validate_vars, scan_vars, requests,
                   config_vars, suggest_vars, fallback_vars>>

\* one call generate_comprehensive_report(analysis_results)
GenerateReport ==
    /\ report = NoResult
    /\ ~Unscored(analysis_results)
    /\ report' = generate_comprehensive_report(analysis_results)
    /\ UNCHANGED analysis_results
    /\ UNCHANGED <<request_vars, validate_vars, scan_vars, requests,
                   config_vars, suggest_vars, fallback_vars>>

NextReport ==
    \/ Score
    \/ GenerateReport

SpecReport == InitReport /\ [][NextReport]_vars

(***************************************************************************)
(* Properties of the reports.                                              *)
(***************************************************************************)
\* a report has been returned
Reported == report # NoResult

\* all_recommendations of the analysis
AllRecommendations ==
    Get(analysis_results, "recommendations", <<>>)
       \o Get(analysis_results, "enhanced_recommendations", <<>>)

\* the number of entries of a list of items, or of texts, for one text
ItemsFor(list, rec) ==
    Cardinality({k \in DOMAIN list : list[k].recommendation = rec})

TimesIn(list, rec) == Cardinality({k \in DOMAIN list : list[k] = rec})

\* C23: every recommendation is in exactly one of the lists high_priority
\* (impact 8 and more), medium_priority (6 and 7) and low_priority (below 6),
\* is in quick_wins iff its impact is 7 or more and its effort 3 or less, and
\* in strategic_improvements iff its impact is 8 or more and its effort 7 or
\* more, with the impact and the effort of its text alone
C23_Buckets ==
    Reported =>
        LET lists == report.improvement_recommendations
            priorities == lists.high_priority \o lists.medium_priority
                             \o lists.low_priority
            listed == priorities \o lists.quick_wins
                         \o lists.strategic_improvements
        IN  /\ \A k \in DOMAIN listed :
                  /\ TimesIn(AllRecommendations, listed[k].recommendation) > 0
                  /\ listed[k].estimated_impact
                        = _estimate_impact(listed[k].recommendation)
                  /\ listed[k].effort_level
                        = _estimate_effort(listed[k].recommendation)
            /\ \A k \in DOMAIN lists.high_priority :
                  lists.high_priority[k].estimated_impact >= 8
            /\ \A k \in DOMAIN lists.medium_priority :
                  lists.medium_priority[k].estimated_impact \in 6..7
            /\ \A k \in DOMAIN lists.low_priority :
                  lists.low_priority[k].estimated_impact < 6
            /\ \A k \in DOMAIN AllRecommendations :
                  LET rec == AllRecommendations[k]
                      times == TimesIn(AllRecommendations, rec)
                      impact == _estimate_impact(rec)
                      effort == _estimate_effort(rec)
                  IN  /\ ItemsFor(priorities, rec) = times
                      /\ ItemsFor(lists.quick_wins, rec) =
                            IF impact >= 7 /\ effort <= 3 THEN times ELSE 0
                      /\ ItemsFor(lists.strategic_improvements, rec) =
                            IF impact >= 8 /\ effort >= 7 THEN times ELSE 0

\* a report with a quick win, a strategic improvement and a recommendation
\* of medium priority
C23_Witness ==
    /\ Reported
    /\ Len(report.improvement_recommendations.quick_wins) = 1
    /\ Len(report.improvement_recommendations.strategic_improvements) = 1
    /\ Len(report.improvement_recommendations.high_priority) = 2
    /\ Len(report.improvement_recommendations.medium_priority) = 1

\* C24: the grade of the executive summary is that of enhanced_score, and of
\* overall_score only when the analysis has no enhanced_score: A+ from 90,
\* A from 80 to 89, B from 70 to 79, C from 60 to 69, D below 60
C24_GradeOfEnhancedScore ==
    (Reported /\ DOMAIN analysis_results
                    \cap {"enhanced_score", "overall_score"} # {}) =>
        LET score ==
                IF "enhanced_score" \in DOMAIN analysis_results
                THEN analysis_results.enhanced_score
                ELSE analysis_results.overall_score
            grade == report.executive_summary.overall_assessment.grade
        IN  /\ score >= 90 <=> grade = "A+"
            /\ score \in 80..89 <=> grade = "A"
            /\ score \in 70..79 <=> grade = "B"
            /\ score \in 60..69 <=> grade = "C"
            /\ score < 60 <=> grade = "D"

\* a report graded D for an enhanced_score of 59 beside an overall_score
\* of 90
C24_Witness ==
    /\ Reported
    /\ DOMAIN analysis_results = {"enhanced_score", "overall_score"}
    /\ analysis_results.enhanced_score = 59
    /\ analysis_results.overall_score = 90
    /\ report.executive_summary.overall_assessment.grade = "D"

\* C30: the enhanced_score that enhanced_scan computes from sub-scores
\* between 0 and 100 is at most 52, and the report of such an analysis is
\* graded D, below every threshold from 60 up
C30_EnhancedScoreAtMost52 ==
    ("enhanced_analysis" \in DOMAIN analysis_results
        /\ ~Unscored(analysis_results)) =>
        /\ analysis_results.enhanced_score \in 0..52
        /\ Reported =>
              /\ report.executive_summary.overall_assessment.score
                    = analysis_results.enhanced_score
              /\ report.executive_summary.overall_assessment.grade = "D"

\* the report of the sheet with every sub-score 100: enhanced_score 52
C30_Witness ==
    /\ Reported
    /\ "enhanced_analysis" \in DOMAIN analysis_results
    /\ analysis_results.enhanced_score = 52
    /\ analysis_results.overall_score = 100
    /\ report.executive_summary.overall_assessment.grade = "D"

(***************************************************************************)
(* CVOptimizer.get_optimization_suggestions                                *)
(***************************************************************************)
\* left - right: the difference of two sets; a list has no '-', and the
\* reflected operator of set refuses a list
Subtract(left, right) ==
    IF left.type = "set" /\ right.type = "set"
    THEN Returned(PyValue("set", left.val \ right.val))
    ELSE Raised("TypeError")

\* a suggestion is its category and priority; the texts 'suggestion' and
\* 'impact' and the list 'examples' are left out
get_optimization_suggestions(cv_text_) ==
    LET analysis == _analyze_current_cv(cv_text_)
        quantification ==
            IF ~RatioLeq(RatioOf(80), analysis.quantification_rate)
            THEN << [category |-> "quantification", priority |-> "high"] >>
            ELSE <<>>
        action_verbs ==
            IF analysis.power_verb_count < 5
            THEN << [category |-> "action_verbs", priority |-> "high"] >>
            ELSE <<>>
        missing_sections ==
            Subtract(PyList(<<"summary", "skills">>),
                     PyValue("set", SetOf(analysis.sections_detected)))
    IN  IF missing_sections.raised
        THEN <<>>          \* the handler of line 451
        ELSE quantification \o action_verbs
                \o (IF missing_sections.value.val # {}
                    THEN << [category |-> "structure", priority |-> "medium"] >>
                    ELSE <<>>)

MaxSuggestLines == 2    \* lines of a text given to get_optimization_suggestions

SuggestLines ==
    { <<"P","r","o","f","i","l","e">>, <<"s","u","m","m","a","r","y">>, <<"S","k","i","l","l","s">>, <<"e","m","p","l","o","y","m","e","n","t">>, <<"E","d","u","c","a","t","i","o","n">>,
      <<"(","s","u","m","m","a","r","y","|","p","r","o","f","i","l","e","|","o","b","j","e","c","t","i","v","e",")">>, <<"p","r","o","j","e","c","t","s">>, <<"c","e","r","t","i","f","i","c","a","t","e","s">>,
      <<"-"," ","l","e","d"," ","5">>, <<"*"," ","h","e","l","p","e","d">>, <<"P","l","a","i","n">>,
      <<"a","r","c","h","i","t","e","c","t","e","d"," ","o","r","c","h","e","s","t","r","a","t","e","d"," ","s","p","e","a","r","h","e","a","d","e","d"," ","o","p","t","i","m","i","z","e","d"," ","t","r","a","n","s","f","o","r","m","e","d">> }

SuggestTexts == {<<>>} \cup TextsOf(SuggestLines, MaxSuggestLines)

InitSuggest ==
    /\ s_cv_text \in SuggestTexts
    /\ suggestions = NoResult
    /\ NoRequest
    /\ NoValidation
    /\ NoScanner
    /\ NoConfig
    /\ NoReport
    /\ NoFallback

\* one call get_optimization_suggestions(cv_text)
GetSuggestions ==
    /\ suggestions = NoResult
    /\ suggestions' = Returned(get_optimization_suggestions(s_cv_text))
    /\ UNCHANGED s_cv_text
    /\ UNCHANGED <<request_vars, validate_vars, scan_vars, requests,
                   config_vars, report_vars, fallback_vars>>

SpecSuggest == InitSuggest /\ [][GetSuggestions]_vars

(***************************************************************************)
(* Properties of the sections and of the suggestions.                      *)
(***************************************************************************)
\* the alternatives of the section patterns of cv_optimizer.py:107-114
OptimizerAlternatives ==
    [summary |-> { <<"s","u","m","m","a","r","y">>, <<"p","r","o","f","i","l","e">>, <<"o","b","j","e","c","t","i","v","e">> },
     experience |-> { <<"e","x","p","e","r","i","e","n","c","e">>, <<"w","o","r","k">>, <<"e","m","p","l","o","y","m","e","n","t">>, <<"c","a","r","e","e","r">> },
     education |-> { <<"e","d","u","c","a","t","i","o","n">> },
     skills |-> { <<"s","k","i","l","l","s">> },
     certifications |-> { <<"c","e","r","t","i","f","i","c","a","t","i","o","n","s">>, <<"c","e","r","t","i","f","i","c","a","t","e","s">> },
     projects |-> { <<"p","r","o","j","e","c","t","s">> }]

\* the alternatives of the section patterns of scanner.py:137-143
ScannerAlternatives ==
    [contact |-> { <<"e","m","a","i","l">>, <<"p","h","o","n","e">>, <<"l","i","n","k","e","d","i","n">> },
     summary |-> { <<"s","u","m","m","a","r","y">>, <<"p","r","o","f","i","l","e">>, <<"o","b","j","e","c","t","i","v","e">> },
     experience |-> { <<"e","x","p","e","r","i","e","n","c","e">>, <<"w","o","r","k">>, <<"e","m","p","l","o","y","m","e","n","t">> },
     education |-> { <<"e","d","u","c","a","t","i","o","n">> },
     skills |-> { <<"s","k","i","l","l","s">> }]

\* one of the alternatives occurs in the lower-cased text
Occurs(alternatives, text) ==
    \E alternative \in alternatives : Contains(lower(text), alternative)

\* C25: in the scanner and in the optimizer, a section is reported present
\* iff one of the alternatives of its pattern occurs in the lower-cased text
C25_SectionsDetected ==
    suggestions # NoResult =>
        LET detected == _detect_sections(s_cv_text)
            sections_found == _analyze_formatting(s_cv_text).sections
        IN  /\ \A section \in DOMAIN ScannerAlternatives :
                  sections_found[section]
                     <=> Occurs(ScannerAlternatives[section], s_cv_text)
            /\ \A section \in DOMAIN OptimizerAlternatives :
                  (\E k \in DOMAIN detected : detected[k] = section)
                     <=> Occurs(OptimizerAlternatives[section], s_cv_text)

\* C26: get_optimization_suggestions returns a quantification suggestion iff
\* the quantification rate is below 80, an action-verb suggestion iff the
\* power-verb count is below 5 and a structure suggestion iff 'summary' or
\* 'skills' is not among the detected sections; the list is not empty for a
\* text with no bullets and no power verbs
C26_SuggestionPerUnmetCondition ==
    suggestions # NoResult =>
        LET analysis == _analyze_current_cv(s_cv_text)
            returned == suggestions.value
            Suggested(category) ==
                Cardinality({k \in DOMAIN returned :
                                returned[k].category = category})
        IN  /\ Suggested("quantification") =
                  IF ~RatioLeq(RatioOf(80), analysis.quantification_rate)
                  THEN 1 ELSE 0
            /\ Suggested("action_verbs") =
                  IF analysis.power_verb_count < 5 THEN 1 ELSE 0
            /\ Suggested("structure") =
                  IF {"summary", "skills"}
                        \subseteq SetOf(analysis.sections_detected)
                  THEN 0 ELSE 1
            /\ (analysis.total_bullets = 0 /\ analysis.power_verb_count = 0)
                  => returned # <<>>

(***************************************************************************)
(* The validation without a gain, and the rule-based fallback run again.   *)
(***************************************************************************)
\* C27: validation_passed is true only if the quantification rate or the
\* power-verb count of the optimized text is higher than that of the
\* original: with neither, improvement_score is at most 45
C27_PassNeedsRateOrVerbGain ==
    v_result # NoResult =>
        LET orig == v_result.original_analysis
            opt == v_result.optimized_analysis
            gain == \/ RateIncreased(orig, opt)
                    \/ opt.power_verb_count > orig.power_verb_count
        IN  /\ v_result.validation_passed => gain
            /\ ~gain => v_result.improvement_score <= 45

\* a rewrite with one bullet more and the same rate and verbs: both other
\* bonuses, 45, not passed
C27_Witness ==
    /\ v_result # NoResult
    /\ v_optimized # v_original
    /\ v_result.improvements.bullet_count_change > 0
    /\ v_result.improvements.quantification_improvement.num <= 0
    /\ v_result.improvements.power_verb_improvement <= 0
    /\ v_result.improvement_score = 45
    /\ ~v_result.validation_passed

MaxFallbackRuns == 2    \* runs of the fallback, each on the output of the last

InitFallback ==
    /\ f_cv_text \in CVTexts
    /\ f_runs = <<>>
    /\ NoRequest
    /\ NoValidation
    /\ NoScanner
    /\ NoConfig
    /\ NoReport
    /\ NoSuggestions

\* the text given to run n
RunInput(n) ==
    IF n = 1 THEN f_cv_text ELSE f_runs[n - 1].optimized_content.val

\* one call _fallback_optimization({'cv_text': ...}), of the text first
\* given or of the optimized_content of the run before
ApplyFallback ==
    /\ Len(f_runs) < MaxFallbackRuns
    /\ f_runs' = Append(f_runs,
                        _fallback_optimization(
                            IF f_runs = <<>> THEN f_cv_text
                            ELSE f_runs[Len(f_runs)].optimized_content.val))
    /\ UNCHANGED f_cv_text
    /\ UNCHANGED <<request_vars, validate_vars, scan_vars, requests,
                   config_vars, report_vars, suggest_vars>>

SpecFallback == InitFallback /\ [][ApplyFallback]_vars

\* 'weak in line.lower()' for one of the weak phrases
HasWeakPhrase(line) ==
    \E k \in DOMAIN verb_replacements :
        Contains(lower(line), verb_replacements[k].weak)

\* C28: the fallback returns as many lines as it is given, and a line
\* without a weak phrase (in any case of its letters) is returned as it was:
\* only lines with a weak phrase differ
C28_OtherLinesKept ==
    \A n \in DOMAIN f_runs :
        LET lines == split(RunInput(n), NL)
            optimized_lines == split(f_runs[n].optimized_content.val, NL)
        IN  /\ Len(optimized_lines) = Len(lines)
            /\ \A i \in DOMAIN lines :
                  optimized_lines[i] # lines[i] => HasWeakPhrase(lines[i])

\* a text of a line with a weak phrase, which is rewritten, and the line
\* 'Plain', which keeps its capital
C28_Witness ==
    /\ f_runs # <<>>
    /\ LET lines == split(f_cv_text, NL)
           optimized_lines == split(f_runs[1].optimized_content.val, NL)
       IN  /\ Len(lines) = 2
           /\ \E i \in DOMAIN lines : optimized_lines[i] # lines[i]
           /\ \E i \in DOMAIN lines :
                 /\ lines[i] = <<"P","l","a","i","n">>
                 /\ optimized_lines[i] = lines[i]

\* C29: the fallback run on its own output returns that output and records
\* no improvement, also for lines with more than one weak phrase
C29_FallbackIdempotent ==
    \A n \in DOMAIN f_runs :
        n > 1 =>
            /\ f_runs[n].optimized_content = f_runs[n - 1].optimized_content
            /\ f_runs[n].improvements.val = <<>>

====
